---- MODULE Spec2Model ----
(***************************************************************************)
(* Logo resolution engine: cache-key derivation, result ranking, the      *)
(* fixed-window rate limiter, the company-name-to-domain resolver, the    *)
(* fetchLogo request cycle over the two cache tiers (KV and R2), the      *)
(* provider verification requests, the logo endpoint and the magic-link   *)
(* authentication endpoint.                                               *)
(*                                                                         *)
(* Strings are sequences of one-character strings, so that prefix         *)
(* stripping, lower-casing, substring tests and concatenation are         *)
(* computed character by character as the code computes them.             *)
(***************************************************************************)
EXTENDS Integers, Sequences, FiniteSets, TLC

VARIABLES
    keyIn,              \* SpecKeys: the two domain spellings, format and size under derivation
    keyOut,             \* SpecKeys: the keys derived for both spellings (<<>> before derivation)
    successfulResults,  \* SpecRank: the successes collected by one provider pass, in provider order
    selected,           \* SpecRank: <<>> before ranking, <<best>> after it
    pass,               \* SpecPass: the position of one provider pass and the attempts made so far
    statsKV,            \* SpecRate: the counter store, key -> [value, expiresAt]
    rlNow,              \* SpecRate: the wall clock in seconds
    rlLog,              \* SpecRate: the checkRateLimit calls made so far, with their results
    rlCalls,            \* SpecRateConc: per concurrent checkRateLimit call, its position and locals
    logoHeaders,        \* SpecHeaders: two logo responses, their metadata and the headers built for them
    verifyCalls,        \* SpecProviders: the provider calls of one failover loop so far, with the state of each response body
    magicLinks,         \* SpecMagic: the token record in the MAGIC_LINKS namespace, the clock, and the clicks on the magic link
    endpoint,           \* SpecEndpoint: the runs of handleLogoEndpoint so far, the last one maybe in progress
    resolveStage,       \* SpecResolve: the strategy findDomainFromCompanyName runs next, or "done"
    searchResponse,     \* SpecResolve: the response the last strategy received
    foundDomain,        \* SpecResolve: <<>> for null, <<domain>> once a strategy returned one
    kv,                 \* SpecFetch: the fast tier, KV key -> metadata JSON
    r2,                 \* SpecFetch: the durable tier, R2 key -> blob or metadata JSON
    fetchNow,           \* SpecFetch: the wall clock
    reqs,               \* SpecFetch: per request, the position and locals of fetchLogo
    nFaults             \* SpecFetch: store operations that have thrown so far

keyVars  == <<keyIn, keyOut>>
rankVars == <<successfulResults, selected, pass>>
rateVars == <<statsKV, rlNow, rlLog, rlCalls>>
resolveVars == <<resolveStage, searchResponse, foundDomain>>
fetchVars == <<kv, r2, fetchNow, reqs, nFaults>>

vars == <<keyVars, rankVars, rateVars, logoHeaders, endpoint, verifyCalls, magicLinks, resolveVars, fetchVars>>

\* what the actions of one component leave alone
notKeyVars     == <<rankVars, rateVars, resolveVars, fetchVars, endpoint, logoHeaders, verifyCalls, magicLinks>>
notRankVars    == <<keyVars, rateVars, resolveVars, fetchVars, endpoint, logoHeaders, verifyCalls, magicLinks>>
notRateVars    == <<keyVars, rankVars, resolveVars, fetchVars, endpoint, logoHeaders, verifyCalls, magicLinks>>
notResolveVars == <<keyVars, rankVars, rateVars, fetchVars, endpoint, logoHeaders, verifyCalls, magicLinks>>
notFetchVars   == <<keyVars, rankVars, rateVars, resolveVars, endpoint, logoHeaders, verifyCalls, magicLinks>>
notEndpointVars == <<keyVars, rankVars, resolveVars, fetchVars, logoHeaders, verifyCalls, magicLinks>>
notHeaderVars  == <<keyVars, rankVars, rateVars, endpoint, resolveVars, fetchVars, verifyCalls, magicLinks>>
notProviderVars == <<keyVars, rankVars, rateVars, endpoint, resolveVars, fetchVars, logoHeaders, magicLinks>>
notMagicVars   == <<keyVars, rankVars, rateVars, endpoint, resolveVars, fetchVars, logoHeaders, verifyCalls>>

\* ------------------------------------------------------------------------
\* String primitives (String.prototype methods used by the code)
\* ------------------------------------------------------------------------
UpperChars == <<"A","B","C","D","E","F","G","H","I","J","K","L","M",
                "N","O","P","Q","R","S","T","U","V","W","X","Y","Z">>
LowerChars == <<"a","b","c","d","e","f","g","h","i","j","k","l","m",
                "n","o","p","q","r","s","t","u","v","w","x","y","z">>
DigitChars == <<"0","1","2","3","4","5","6","7","8","9">>

lowerOf == [c \in { UpperChars[i] : i \in 1..26 } |->
              LowerChars[CHOOSE i \in 1..26 : UpperChars[i] = c]]

toLowerCaseChar(c) == IF c \in DOMAIN lowerOf THEN lowerOf[c] ELSE c

toLowerCase(s) == [i \in 1..Len(s) |-> toLowerCaseChar(s[i])]

startsWith(s, p) == Len(s) >= Len(p) /\ SubSeq(s, 1, Len(p)) = p

endsWith(s, p) == Len(s) >= Len(p) /\ SubSeq(s, Len(s) - Len(p) + 1, Len(s)) = p

includes(s, p) == \E i \in 1..(Len(s) - Len(p) + 1) : SubSeq(s, i, i + Len(p) - 1) = p

dropPrefix(s, n) == SubSeq(s, n + 1, Len(s))

\* String(n) for a natural number, as a template literal prints it
RECURSIVE numToString(_)
numToString(n) ==
    IF n < 10 THEN <<DigitChars[n + 1]>>
    ELSE numToString(n \div 10) \o <<DigitChars[(n % 10) + 1]>>

str_http  == <<"h","t","t","p",":","/","/">>
str_https == <<"h","t","t","p","s",":","/","/">>
str_www   == <<"w","w","w",".">>
str_png   == <<"p","n","g">>
str_svg   == <<"s","v","g">>

\* domain.replace(/^https?:\/\//, '')  (the pattern is case-sensitive)
stripProtocol(s) ==
    IF startsWith(s, str_https) THEN dropPrefix(s, Len(str_https))
    ELSE IF startsWith(s, str_http) THEN dropPrefix(s, Len(str_http))
    ELSE s

\* .replace(/^www\./, '')  (the pattern is case-sensitive)
stripWww(s) == IF startsWith(s, str_www) THEN dropPrefix(s, Len(str_www)) ELSE s

\* domain.replace(/^https?:\/\//, '').replace(/^www\./, '').toLowerCase()
cleanDomain(domain) == toLowerCase(stripWww(stripProtocol(domain)))

isWhitespace(c) == c \in {" ", "\t"}

\* s.replace(/\s+/g, '-'): every maximal run of whitespace becomes one '-'
RECURSIVE replaceWhitespaceRuns(_)
replaceWhitespaceRuns(s) ==
    IF s = <<>> THEN <<>>
    ELSE IF isWhitespace(Head(s))
         THEN IF Len(s) > 1 /\ isWhitespace(s[2])
              THEN replaceWhitespaceRuns(Tail(s))
              ELSE <<"-">> \o replaceWhitespaceRuns(Tail(s))
         ELSE <<Head(s)>> \o replaceWhitespaceRuns(Tail(s))

\* companyName.toLowerCase().replace(/\s+/g, '-')
cleanName(companyName) == replaceWhitespaceRuns(toLowerCase(companyName))

\* size ? `_${size}` : ''   (size 0 stands for an undefined size: both are falsy)
sizeSuffix(size) == IF size # 0 THEN <<"_">> \o numToString(size) ELSE <<>>

\* ------------------------------------------------------------------------
\* Cache-key derivation.  An absent domain or company name is the empty
\* string: `if (domain)` treats undefined and '' alike.
\* ------------------------------------------------------------------------
KeyError == <<"!","t","h","r","o","w">>   \* 'Either domain or companyName must be provided'

generateKVMetadataKey(domain, companyName, format, size) ==
    IF domain # <<>>
    THEN <<"l","o","g","o",":">> \o cleanDomain(domain) \o <<":">> \o format \o sizeSuffix(size)
    ELSE IF companyName # <<>>
    THEN <<"l","o","g","o",":","n","a","m","e",":">> \o cleanName(companyName)
            \o <<":">> \o format \o sizeSuffix(size)
    ELSE KeyError

generateLogoKey(domain, companyName, format, size) ==
    IF domain # <<>>
    THEN <<"l","o","g","o","s","/">> \o cleanDomain(domain) \o sizeSuffix(size) \o <<".">> \o format
    ELSE IF companyName # <<>>
    THEN <<"l","o","g","o","s","/","n","a","m","e","/">> \o cleanName(companyName)
            \o sizeSuffix(size) \o <<".">> \o format
    ELSE KeyError

generateMetadataKey(domain, companyName) ==
    IF domain # <<>>
    THEN <<"m","e","t","a","d","a","t","a","/">> \o cleanDomain(domain) \o <<".","j","s","o","n">>
    ELSE IF companyName # <<>>
    THEN <<"m","e","t","a","d","a","t","a","/","n","a","m","e","/">> \o cleanName(companyName)
            \o <<".","j","s","o","n">>
    ELSE KeyError

\* ------------------------------------------------------------------------
\* SpecKeys: key derivation applied to two spellings of one domain
\* ------------------------------------------------------------------------
\* Spellings of a domain: [protocol prefix] [www.] host, each part in several
\* letter cases.  Two spellings built on the same base host differ only in
\* letter case, in the protocol prefix and in the leading "www.".
HostBases == { <<"a",".","c","o">>, <<"b","-","x",".","i","o">> }

upperFirst(s) == [i \in 1..Len(s) |-> IF i = 1 /\ \E j \in 1..26 : LowerChars[j] = s[i]
                                       THEN UpperChars[CHOOSE j \in 1..26 : LowerChars[j] = s[i]]
                                       ELSE s[i]]

toUpperCase(s) == [i \in 1..Len(s) |-> IF \E j \in 1..26 : LowerChars[j] = s[i]
                                       THEN UpperChars[CHOOSE j \in 1..26 : LowerChars[j] = s[i]]
                                       ELSE s[i]]

CaseVariants(s) == { s, upperFirst(s), toUpperCase(s) }

ProtocolSpellings == {<<>>} \cup CaseVariants(str_http) \cup CaseVariants(str_https)
WwwSpellings      == {<<>>} \cup CaseVariants(str_www)

Spellings(host) ==
    { p \o w \o h : p \in ProtocolSpellings, w \in WwwSpellings, h \in CaseVariants(host) }

KeyFormats == { str_png, str_svg }
KeySizes   == { 0, 64, 512 }

KeysOf(domain, format, size) ==
    [ logoKey     |-> generateLogoKey(domain, <<>>, format, size),
      metadataKey |-> generateMetadataKey(domain, <<>>),
      kvKey       |-> generateKVMetadataKey(domain, <<>>, format, size) ]

\* a caller hands two spellings of the same domain to the key functions
ChooseSpellings ==
    /\ keyIn = <<>>
    /\ \E host \in HostBases, format \in KeyFormats, size \in KeySizes :
         \E d1 \in Spellings(host), d2 \in Spellings(host) :
            keyIn' = [d1 |-> d1, d2 |-> d2, format |-> format, size |-> size]
    /\ UNCHANGED <<keyOut, notKeyVars>>

DeriveKeys ==
    /\ keyIn # <<>>
    /\ keyOut = <<>>
    /\ keyOut' = << KeysOf(keyIn.d1, keyIn.format, keyIn.size),
                    KeysOf(keyIn.d2, keyIn.format, keyIn.size) >>
    /\ UNCHANGED <<keyIn, notKeyVars>>

NextKeys == ChooseSpellings \/ DeriveKeys


\* ------------------------------------------------------------------------
\* Result ranking (the sort at the end of fetchLogoWithFailover)
\* ------------------------------------------------------------------------
MaxFileSize  == 2      \* largest fetched body, in bytes
MaxDuration  == 2      \* largest provider latency, in clock units
MaxSuccesses == 2      \* most successful candidates in one ranked list

logoProviders == << "getlogo.dev", "logo.dev", "wikipedia", "wikimedia" >>

\* An optional value is <<>> when undefined and <<v>> when defined.
\* EnhancedLogoResult of a successful attempt; fileSize is logoData.byteLength
\* when the bytes were fetched and 0 (falsy, like undefined) otherwise.
enhancedResult(provider, logoUrl, duration, logoData) ==
    [ success  |-> TRUE,
      provider |-> provider,
      logoUrl  |-> logoUrl,
      duration |-> duration,
      logoData |-> logoData,
      fileSize |-> IF logoData = <<>> THEN 0 ELSE Len(logoData[1]) ]

getProviderPriority(result) ==
    IF result.provider = "wikipedia" THEN 4
    ELSE IF result.provider = "wikimedia" THEN 3
    ELSE IF result.provider = "google-favicon" THEN 1
    ELSE 2

\* a format read from the options of the call instead of the URL
getFormat_fromRequest(result) ==
    IF pass.format = <<"s","v","g">> THEN "svg" ELSE "png"

getFormat(result) ==
    LET url == result.logoUrl IN
    IF includes(url, <<".","s","v","g">>) \/ includes(toLowerCase(url), <<"s","v","g">>) THEN "svg"
    ELSE IF includes(url, <<".","p","n","g">>) \/ includes(toLowerCase(url), <<"p","n","g">>) THEN "png"
    ELSE IF \/ includes(url, <<".","j","p","g">>)
            \/ includes(url, <<".","j","p","e","g">>)
            \/ includes(toLowerCase(url), <<"j","p","e","g">>) THEN "jpg"
    ELSE "unknown"

formatPriority(format) ==
    CASE format = "svg" -> 3
      [] format = "png" -> 2
      [] format = "jpg" -> 1
      [] OTHER -> 0

\* the comparator without its first (provider tier) level
compareResults_noTier(a, b) ==
    LET priorityA == formatPriority(getFormat(a))
        priorityB == formatPriority(getFormat(b))
    IN
    IF priorityA # priorityB THEN priorityB - priorityA
    ELSE IF a.fileSize # 0 /\ b.fileSize # 0 THEN b.fileSize - a.fileSize
    ELSE IF a.duration # 0 /\ b.duration # 0 THEN a.duration - b.duration
    ELSE 0

\* the sort comparator: negative when a goes first, positive when b goes first
compareResults(a, b) ==
    LET providerPriorityA == getProviderPriority(a)
        providerPriorityB == getProviderPriority(b)
        priorityA == formatPriority(getFormat(a))
        priorityB == formatPriority(getFormat(b))
    IN
    IF providerPriorityA # providerPriorityB THEN providerPriorityB - providerPriorityA
    ELSE IF priorityA # priorityB THEN priorityB - priorityA
    ELSE IF a.fileSize # 0 /\ b.fileSize # 0 THEN b.fileSize - a.fileSize
    ELSE IF a.duration # 0 /\ b.duration # 0 THEN a.duration - b.duration
    ELSE 0

\* Array.prototype.sort is stable: elements the comparator does not separate
\* keep their input order.  Insertion from the left gives that order.
RECURSIVE insertSorted(_, _)
insertSorted(sorted, x) ==
    IF sorted = <<>> THEN <<x>>
    ELSE LET last == sorted[Len(sorted)] IN
         IF compareResults(last, x) > 0
         THEN insertSorted(SubSeq(sorted, 1, Len(sorted) - 1), x) \o <<last>>
         ELSE sorted \o <<x>>

RECURSIVE sortResults(_)
sortResults(results) ==
    IF results = <<>> THEN <<>>
    ELSE insertSorted(sortResults(SubSeq(results, 1, Len(results) - 1)), results[Len(results)])

\* a ranking step that forgets to sort
selectBest_unsorted(results) == results[1]

\* successfulResults.sort(...); return successfulResults[0]
selectBest(results) == sortResults(results)[1]

\* ------------------------------------------------------------------------
\* SpecRank: ranking applied to the lists a provider pass can collect
\* ------------------------------------------------------------------------
url_svg   == <<"l",".","s","v","g">>
url_png   == <<"l",".","p","n","g">>

RankUrls  == { url_svg, url_png }
RankBlobs == { [i \in 1..n |-> 1] : n \in 1..MaxFileSize }
RankData  == { <<>> } \cup { <<b>> : b \in RankBlobs }

RankCandidates(provider) ==
    { enhancedResult(provider, u, d, data) :
        u \in RankUrls, d \in 0..MaxDuration, data \in RankData }

\* the successes of one pass over logoProviders, in provider order
RECURSIVE PassLists(_)
PassLists(i) ==
    IF i > Len(logoProviders) THEN { <<>> }
    ELSE LET rest == PassLists(i + 1) IN
         rest \cup { <<c>> \o r : c \in RankCandidates(logoProviders[i]),
                                  r \in { l \in rest : Len(l) < MaxSuccesses } }

\* google-favicon is only tried when every listed provider failed
RankLists == (PassLists(1) \ { <<>> })
             \cup { <<c>> : c \in { x \in RankCandidates("google-favicon") : x.logoData # <<>> } }

Orderings(results) ==
    { [i \in 1..Len(results) |-> results[p[i]]] :
        p \in { q \in [1..Len(results) -> 1..Len(results)] :
                  \A i, j \in 1..Len(results) : q[i] = q[j] => i = j } }

RankResults ==
    /\ selected = <<>>
    /\ selected' = << selectBest(successfulResults) >>
    /\ UNCHANGED <<successfulResults, pass, notRankVars>>

NextRank == RankResults


\* ------------------------------------------------------------------------
\* Rate limiter (checkRateLimit) over the STATS key-value store
\* ------------------------------------------------------------------------
RLQuota   == 2     \* config.maxRequests
RLWindow  == 3     \* config.windowSeconds
MaxRLTime == 4     \* the clock stops here
MaxRLCalls == RLQuota + 1

ApiKeys == { <<"k","1">>, <<"k","2">> }

\* parseInt(s, 10) of a string of decimal digits
digitValue(c) == (CHOOSE i \in 1..10 : DigitChars[i] = c) - 1

RECURSIVE parseInt(_)
parseInt(s) ==
    IF Len(s) = 1 THEN digitValue(s[1])
    ELSE parseInt(SubSeq(s, 1, Len(s) - 1)) * 10 + digitValue(s[Len(s)])

\* KVNamespace.get: null (<<>>) when the key is absent or its TTL has run out
kvGet(store, key, now) ==
    IF key \in DOMAIN store /\ now < store[key].expiresAt THEN << store[key].value >> ELSE <<>>

\* KVNamespace.put with expirationTtl
kvPutTtl(store, key, value, now, ttl) ==
    [ k \in DOMAIN store \cup {key} |->
        IF k = key THEN [value |-> value, expiresAt |-> now + ttl] ELSE store[k] ]

\* Math.floor(now / windowSeconds) * windowSeconds
windowStartOf(now, windowSeconds) == (now \div windowSeconds) * windowSeconds

\* a counter key that leaves the window out
rateLimitKeyOf_noWindow(apiKey, windowStart) ==
    <<"r","a","t","e","l","i","m","i","t",":">> \o apiKey

rateLimitKeyOf(apiKey, windowStart) ==
    <<"r","a","t","e","l","i","m","i","t",":">> \o apiKey \o <<":">> \o numToString(windowStart)

\* the quota test with an off-by-one
quotaReached_offByOne(count, maxRequests) == count > maxRequests

\* if (count >= config.maxRequests)
quotaReached(count, maxRequests) == count >= maxRequests

\* a catch that blocks the request on a storage error
storeErrorResult_failClosed == [allowed |-> FALSE, remaining |-> <<>>, resetAt |-> <<>>]

\* catch (error): return { allowed: true }
storeErrorResult == [allowed |-> TRUE, remaining |-> <<>>, resetAt |-> <<>>]

\* a limiter that counts the rejected calls as well
checkRateLimit_countsRejected(apiKey, storeFault) ==
    LET windowStart  == windowStartOf(rlNow, RLWindow)
        rateLimitKey == rateLimitKeyOf(apiKey, windowStart)
        currentCount == kvGet(statsKV, rateLimitKey, rlNow)
        count        == parseInt(IF currentCount = <<>> THEN <<"0">> ELSE currentCount[1])
        newCount     == count + 1
        call         == [apiKey |-> apiKey, windowStart |-> windowStart, fault |-> storeFault]
    IN
    IF storeFault # "none"
    THEN /\ rlLog' = Append(rlLog, call @@ storeErrorResult)
         /\ UNCHANGED statsKV
    ELSE /\ statsKV' = kvPutTtl(statsKV, rateLimitKey, numToString(newCount), rlNow, RLWindow)
         /\ rlLog' = Append(rlLog, call @@
                IF quotaReached(count, RLQuota)
                THEN [allowed |-> FALSE, remaining |-> <<0>>, resetAt |-> <<windowStart + RLWindow>>]
                ELSE [allowed |-> TRUE, remaining |-> <<RLQuota - newCount>>,
                      resetAt |-> <<windowStart + RLWindow>>])

\* One call of checkRateLimit.  storeFault is where the store throws:
\* "none", "get" (the read) or "put" (the write).
checkRateLimit(apiKey, storeFault) ==
    LET windowStart  == windowStartOf(rlNow, RLWindow)
        rateLimitKey == rateLimitKeyOf(apiKey, windowStart)
        currentCount == kvGet(statsKV, rateLimitKey, rlNow)
        count        == parseInt(IF currentCount = <<>> THEN <<"0">> ELSE currentCount[1])
        newCount     == count + 1
        call         == [apiKey |-> apiKey, windowStart |-> windowStart, fault |-> storeFault]
    IN
    IF storeFault = "get"
    THEN /\ rlLog' = Append(rlLog, call @@ storeErrorResult)
         /\ UNCHANGED statsKV
    ELSE IF quotaReached(count, RLQuota)
    THEN \* the put is not reached, so no store operation throws in this call
         /\ rlLog' = Append(rlLog, [call EXCEPT !.fault = "none"] @@
                                      [allowed |-> FALSE, remaining |-> <<0>>,
                                       resetAt |-> <<windowStart + RLWindow>>])
         /\ UNCHANGED statsKV
    ELSE IF storeFault = "put"
    THEN /\ rlLog' = Append(rlLog, call @@ storeErrorResult)
         /\ UNCHANGED statsKV
    ELSE /\ statsKV' = kvPutTtl(statsKV, rateLimitKey, numToString(newCount), rlNow, RLWindow)
         /\ rlLog' = Append(rlLog, call @@ [allowed |-> TRUE, remaining |-> <<RLQuota - newCount>>,
                                             resetAt |-> <<windowStart + RLWindow>>])

CheckRateLimit ==
    /\ Len(rlLog) < MaxRLCalls
    /\ \E apiKey \in ApiKeys, storeFault \in {"none", "get", "put"} :
          checkRateLimit(apiKey, storeFault)
    /\ UNCHANGED <<rlNow, rlCalls, notRateVars>>

RateTick ==
    /\ rlNow < MaxRLTime
    /\ rlNow' = rlNow + 1
    /\ UNCHANGED <<statsKV, rlLog, rlCalls, notRateVars>>

NextRate == CheckRateLimit \/ RateTick

\* Calls across window boundaries: enough calls of one key to use up the
\* quota of a window, be rejected, and call again in a later window.  The
\* store does not fail in these runs.
MaxWindowCalls == RLQuota + 2

CheckRateLimitInWindow ==
    /\ Len(rlLog) < MaxWindowCalls
    /\ \E apiKey \in ApiKeys : checkRateLimit(apiKey, "none")
    /\ UNCHANGED <<rlNow, rlCalls, notRateVars>>

NextRateWindow == CheckRateLimitInWindow \/ RateTick

\* Concurrent calls of checkRateLimit.  A Worker serves requests
\* concurrently and every await is a point where another call can run, so
\* the read of the counter (kv.get) and its write (kv.put) are two steps.
RLProcs == 1..MaxRLCalls

IdleCall ==
    [ pc |-> "idle", apiKey |-> <<>>, windowStart |-> 0, count |-> 0, fault |-> "none",
      allowed |-> FALSE, remaining |-> <<>>, resetAt |-> <<>> ]

\* now, windowStart, rateLimitKey, then await kv.get and the quota test
ReadCount(c) ==
    /\ rlCalls[c].pc = "idle"
    /\ \E apiKey \in ApiKeys, storeFault \in {"none", "get"} :
         LET windowStart  == windowStartOf(rlNow, RLWindow)
             rateLimitKey == rateLimitKeyOf(apiKey, windowStart)
             currentCount == kvGet(statsKV, rateLimitKey, rlNow)
             count        == parseInt(IF currentCount = <<>> THEN <<"0">> ELSE currentCount[1])
             call         == [IdleCall EXCEPT !.apiKey = apiKey, !.windowStart = windowStart,
                                               !.fault = storeFault]
         IN rlCalls' = [rlCalls EXCEPT ![c] =
                IF storeFault = "get"
                THEN [call EXCEPT !.pc = "done", !.allowed = TRUE]
                ELSE IF quotaReached(count, RLQuota)
                THEN [call EXCEPT !.pc = "done", !.count = count, !.allowed = FALSE,
                                  !.remaining = <<0>>, !.resetAt = <<windowStart + RLWindow>>]
                ELSE [call EXCEPT !.pc = "put", !.count = count]]
    /\ UNCHANGED <<statsKV, rlNow, rlLog, notRateVars>>

\* newCount = count + 1, await kv.put with the window as TTL, then the result
WriteCount(c) ==
    /\ rlCalls[c].pc = "put"
    /\ \E storeFault \in {"none", "put"} :
         LET call         == rlCalls[c]
             rateLimitKey == rateLimitKeyOf(call.apiKey, call.windowStart)
             newCount     == call.count + 1
         IN IF storeFault = "put"
            THEN /\ rlCalls' = [rlCalls EXCEPT ![c] =
                                  [call EXCEPT !.pc = "done", !.fault = "put", !.allowed = TRUE]]
                 /\ UNCHANGED statsKV
            ELSE /\ statsKV' = kvPutTtl(statsKV, rateLimitKey, numToString(newCount), rlNow, RLWindow)
                 /\ rlCalls' = [rlCalls EXCEPT ![c] =
                                  [call EXCEPT !.pc = "done", !.allowed = TRUE,
                                               !.remaining = <<RLQuota - newCount>>,
                                               !.resetAt = <<call.windowStart + RLWindow>>]]
    /\ UNCHANGED <<rlNow, rlLog, notRateVars>>

NextRateConc ==
    \/ \E c \in RLProcs : ReadCount(c)
    \/ \E c \in RLProcs : WriteCount(c)
    \/ RateTick


\* ------------------------------------------------------------------------
\* The logo endpoint (handleLogoEndpoint): key validation, rate limit,
\* usage tracking, then the logo fetch
\* ------------------------------------------------------------------------
\* validateApiKeyFromRequest.  presented is the key the request carries (<<>>
\* when it carries none), known tells whether getApiKey finds its record.  The
\* keys of ApiKeys pass sanitizeApiKey.  A ValidationResult has the properties
\* valid, apiKey, error and rateLimited, and no other.
validateApiKeyFromRequest(presented, known) ==
    IF presented = <<>>
    THEN [valid |-> FALSE, apiKey |-> <<>>, error |-> <<"API key is required">>, rateLimited |-> <<>>]
    ELSE IF ~known
    THEN [valid |-> FALSE, apiKey |-> <<>>, error |-> <<"Invalid API key">>, rateLimited |-> <<>>]
    ELSE [valid |-> TRUE, apiKey |-> presented, error |-> <<>>, rateLimited |-> <<>>]

\* what validateAndRateLimit returns once checkRateLimit has answered
rateLimitOutcome(validation, rateLimit) ==
    IF ~rateLimit.allowed
    THEN [valid |-> FALSE, apiKey |-> validation.apiKey,
          error |-> <<"Rate limit exceeded">>, rateLimited |-> <<TRUE>>]
    ELSE [validation EXCEPT !.rateLimited = <<FALSE>>]

\* createRateLimitResponse(resetAt): if (resetAt) is false for undefined and for 0
createRateLimitResponse(resetAt, now) ==
    [status  |-> 429,
     headers |-> IF resetAt # <<>> /\ resetAt[1] # 0
                 THEN ("Content-Type" :> <<"application/json">>)
                          @@ ("X-RateLimit-Reset" :> <<resetAt[1]>>)
                          @@ ("Retry-After" :> << IF resetAt[1] > now THEN resetAt[1] - now ELSE 0 >>)
                 ELSE ("Content-Type" :> <<"application/json">>)]

\* createValidationErrorResponse(error): status 401 by default
createValidationErrorResponse(error) ==
    [status |-> 401, headers |-> ("Content-Type" :> <<"application/json">>)]

\* the catch of the handler
internalErrorResponse ==
    [status |-> 500, headers |-> ("Content-Type" :> <<"application/json">>)]

\* trackRequest(apiKey, statsKV, timestamp): the date is computed before the try,
\* as timestamp ? timestamp.toISOString()... : new Date()...; a value that is
\* given and is not a Date has no toISOString, and the call throws a TypeError
trackRequest(timestamp) ==
    IF timestamp # <<>> /\ timestamp[1] # "Date" THEN "TypeError" ELSE "tracked"

\* a handler that goes on after a rejection by the rate limiter
afterValidation_ignoresRateLimit(validation, now) ==
    IF ~validation.valid /\ validation.rateLimited # <<TRUE>>
    THEN [stage |-> "responded", response |-> << createValidationErrorResponse(validation.error) >>]
    ELSE IF validation.apiKey # <<>> /\ trackRequest(<<"KVNamespace">>) = "TypeError"
    THEN [stage |-> "responded", response |-> << internalErrorResponse >>]
    ELSE [stage |-> "fetchLogo", response |-> <<>>]

\* handleLogoEndpoint from the answer of validateAndRateLimit up to the call of
\* fetchLogo.  The third argument it hands to trackRequest is the API_KEYS
\* namespace.
afterValidation(validation, now) ==
    IF ~validation.valid
    THEN IF validation.rateLimited = <<TRUE>>
         THEN [stage |-> "responded", response |-> << createRateLimitResponse(<<>>, now) >>]
         ELSE [stage |-> "responded", response |-> << createValidationErrorResponse(validation.error) >>]
    ELSE IF validation.apiKey # <<>> /\ trackRequest(<<"KVNamespace">>) = "TypeError"
    THEN [stage |-> "responded", response |-> << internalErrorResponse >>]
    ELSE [stage |-> "fetchLogo", response |-> <<>>]

\* a request arrives and the handler awaits validateAndRateLimit
ValidateAndRateLimit ==
    /\ Len(endpoint) < MaxRLCalls
    /\ \A i \in DOMAIN endpoint : endpoint[i].stage = "responded"
    /\ \E presented \in {<<>>} \cup { <<k>> : k \in ApiKeys }, known \in BOOLEAN,
          storeFault \in {"none", "get", "put"} :
          LET validation == validateApiKeyFromRequest(presented, known) IN
          IF ~validation.valid \/ validation.apiKey = <<>>
          THEN /\ storeFault = "none"
               /\ endpoint' = Append(endpoint, [stage |-> "validated", validation |-> validation,
                                                rateLimit |-> <<>>, response |-> <<>>])
               /\ UNCHANGED <<statsKV, rlLog>>
          ELSE /\ checkRateLimit(validation.apiKey[1], storeFault)
               /\ endpoint' = Append(endpoint,
                      [stage |-> "validated",
                       validation |-> rateLimitOutcome(validation, rlLog'[Len(rlLog')]),
                       rateLimit |-> << rlLog'[Len(rlLog')] >>, response |-> <<>>])
    /\ UNCHANGED <<rlNow, rlCalls, notEndpointVars>>

\* the handler goes on with the answer: a response, or the call of fetchLogo
HandleValidation ==
    /\ endpoint # <<>>
    /\ endpoint[Len(endpoint)].stage = "validated"
    /\ endpoint' = [endpoint EXCEPT ![Len(endpoint)] =
                       afterValidation(@.validation, rlNow) @@ @]
    /\ UNCHANGED <<statsKV, rlNow, rlLog, rlCalls, notEndpointVars>>

EndpointTick ==
    /\ rlNow < MaxRLTime
    /\ rlNow' = rlNow + 1
    /\ UNCHANGED <<statsKV, rlLog, rlCalls, endpoint, notEndpointVars>>

NextEndpoint == ValidateAndRateLimit \/ HandleValidation \/ EndpointTick

\* ------------------------------------------------------------------------
\* Domain resolver (search/domain-finder).  The repository carries two
\* variants of the module: the DuckDuckGo-only one, whose extractDomain
\* filters unwanted domains, and the three-strategy one (Wikipedia,
\* DuckDuckGo, Google), whose extractDomain does not.
\* ------------------------------------------------------------------------
MaxSearchResults == 2     \* most links in one search response

PAT_GOV       == <<".","g","o","v">>
PAT_DDG       == <<"d","u","c","k","d","u","c","k","g","o",".","c","o","m">>
PAT_WIKIPEDIA == <<"w","i","k","i","p","e","d","i","a",".","o","r","g">>
PAT_WIKI      == <<"w","i","k","i">>
PAT_YOUTUBE   == <<"y","o","u","t","u","b","e">>
PAT_FACEBOOK  == <<"f","a","c","e","b","o","o","k">>
PAT_TWITTER   == <<"t","w","i","t","t","e","r">>
PAT_INSTAGRAM == <<"i","n","s","t","a","g","r","a","m">>
PAT_LINKEDIN  == <<"l","i","n","k","e","d","i","n">>

URL_FAVICON   == <<"h","t","t","p","s",":","/","/","w","w","w",".","g","o","o","g","l","e",".","c","o","m","/","s","2","/","f","a","v","i","c","o","n","s","?","d","o","m","a","i","n","=">>

DOMAIN_ACME   == <<"a","c","m","e",".","i","o">>
NAME_ACME     == <<"A","c","m","e"," ","I","n","c">>

\* raw URLs a search response can carry
URL_ACME       == <<"h","t","t","p","s",":","/","/","a","c","m","e",".","i","o","/","a">>
URL_ACME_UPPER == <<"h","t","t","p",":","/","/","W","W","W",".","A","c","m","e",".","I","O">>
URL_BARE       == <<"a","c","m","e",".","i","o">>
URL_NODOT      == <<"h","t","t","p","s",":","/","/","l","o","c","a","l","h","o","s","t","/">>
URL_WIKIPEDIA  == <<"h","t","t","p","s",":","/","/","e","n",".","w","i","k","i","p","e","d","i","a",".","o","r","g","/","w","i","k","i","/","A">>
URL_FACEBOOK   == <<"h","t","t","p","s",":","/","/","w","w","w",".","f","a","c","e","b","o","o","k",".","c","o","m","/","a">>
URL_GOV        == <<"h","t","t","p","s",":","/","/","a",".","g","o","v",".","u","k","/">>
URL_DDG        == <<"h","t","t","p","s",":","/","/","d","u","c","k","d","u","c","k","g","o",".","c","o","m","/","y">>

\* new URL(url).hostname for http(s) URLs: the text between the scheme and the
\* first '/', '?', '#' or ':', lower-cased.  <<>> stands for a thrown TypeError
\* (no scheme).
RECURSIVE takeHost(_)
takeHost(s) ==
    IF s = <<>> \/ Head(s) \in {"/", "?", "#", ":"} THEN <<>>
    ELSE <<Head(s)>> \o takeHost(Tail(s))

urlParses(url) ==
    startsWith(toLowerCase(url), str_http) \/ startsWith(toLowerCase(url), str_https)

urlHostname(url) ==
    IF startsWith(toLowerCase(url), str_https)
    THEN toLowerCase(takeHost(dropPrefix(url, Len(str_https))))
    ELSE toLowerCase(takeHost(dropPrefix(url, Len(str_http))))

unwantedPatterns == << PAT_DDG, PAT_WIKIPEDIA, PAT_WIKI, PAT_YOUTUBE,
                       PAT_FACEBOOK, PAT_TWITTER, PAT_INSTAGRAM, PAT_LINKEDIN >>

shouldFilterDomain(domain) ==
    LET domainLower == toLowerCase(domain) IN
    \/ includes(domainLower, PAT_GOV) \/ endsWith(domainLower, PAT_GOV)
    \/ \E i \in 1..Len(unwantedPatterns) : includes(domainLower, unwantedPatterns[i])

\* extractDomain of the DuckDuckGo-only variant: null (<<>>) or <<domain>>
extractDomain(url0) ==
    LET url1 == IF startsWith(url0, <<"/","/">>) THEN <<"h","t","t","p","s",":">> \o url0 ELSE url0
        hasProtocol == startsWith(url1, str_http) \/ startsWith(url1, str_https)
        unknownProtocol == /\ ~hasProtocol
                           /\ ~(includes(url1, <<".">>) /\ ~includes(url1, <<"/">>))
                           /\ includes(url1, <<":","/","/">>)
        url == IF hasProtocol THEN url1 ELSE str_https \o url1
        domain == urlHostname(url)
    IN
    IF unknownProtocol THEN <<>>
    ELSE IF domain = <<>> \/ ~includes(domain, <<".">>) THEN <<>>
    ELSE IF shouldFilterDomain(domain) THEN <<>>
    ELSE <<domain>>

\* extractDomain of the three-strategy variant (no filter, strips "www.")
extractDomain_plain(url) ==
    IF ~urlParses(url) THEN <<>>
    ELSE LET domain == stripWww(urlHostname(url)) IN
         IF domain # <<>> /\ includes(domain, <<".">>) THEN <<domain>> ELSE <<>>

\* the first domain of a list of extraction results (<<>> where none was
\* extracted), or <<>>: the loop over the links returns at the first domain
firstDomain(domains) ==
    LET accepted == { i \in 1..Len(domains) : domains[i] # <<>> } IN
    IF accepted = {} THEN <<>>
    ELSE domains[CHOOSE i \in accepted : \A j \in accepted : i <= j]

\* A search response is [ok |-> FALSE] (non-OK status or a thrown error) or
\* [ok |-> TRUE, links |-> <<...>>], the links in result order.

\* findDomainViaWikipedia: the external links of the first matching page
wikipediaLinkDomain(url) ==
    IF startsWith(url, str_http) \/ startsWith(url, str_https)
    THEN LET domain == extractDomain_plain(url) IN
         IF domain # <<>> /\ ~includes(domain[1], PAT_WIKI) THEN domain ELSE <<>>
    ELSE <<>>

findDomainViaWikipedia(response) ==
    IF ~response.ok THEN <<>> ELSE firstDomain([i \in 1..Len(response.links) |-> wikipediaLinkDomain(response.links[i])])

\* findDomainViaDuckDuckGo (three-strategy variant).  A link is an href of the
\* result page: [uddg |-> TRUE, url] is a redirect href whose decoded uddg
\* parameter is url, [uddg |-> FALSE, url] is the href itself.
duckDuckGoHrefDomain(href) ==
    IF startsWith(href.url, <<"/","?">>) \/ startsWith(href.url, <<"#">>) THEN <<>>
    ELSE IF ~href.uddg /\ includes(href.url, PAT_DDG) THEN <<>>
    ELSE LET domain == extractDomain_plain(href.url) IN
         IF domain = <<>> THEN <<>>
         ELSE IF \/ includes(domain[1], PAT_WIKI)
                 \/ includes(domain[1], PAT_YOUTUBE)
                 \/ includes(domain[1], PAT_FACEBOOK)
                 \/ includes(domain[1], PAT_TWITTER)
                 \/ includes(domain[1], PAT_INSTAGRAM)
                 \/ includes(domain[1], PAT_LINKEDIN) THEN <<>>
         ELSE domain

findDomainViaDuckDuckGo(response) ==
    IF ~response.ok THEN <<>> ELSE firstDomain([i \in 1..Len(response.links) |-> duckDuckGoHrefDomain(response.links[i])])

\* findDomainViaGoogle: only the first /url?q=http... match is looked at
findDomainViaGoogle(response) ==
    IF ~response.ok \/ response.links = <<>> THEN <<>>
    ELSE extractDomain_plain(response.links[1])

\* findDomainViaDuckDuckGo of the DuckDuckGo-only variant: AbstractURL, the
\* Results and the RelatedTopics of the Instant Answer reply are the links of
\* the response, in that order; each goes through the same test
apiResultDomain(url) ==
    LET domain == extractDomain(url) IN
    IF /\ domain # <<>>
       /\ ~includes(domain[1], PAT_DDG)
       /\ ~includes(domain[1], PAT_WIKIPEDIA)
       /\ ~includes(domain[1], PAT_WIKI)
    THEN domain ELSE <<>>

\* findDomainViaDuckDuckGoHtml: a link is the decoded uddg parameter of a
\* redirect href of the result page
htmlHrefDomain(href) ==
    IF includes(href, <<"y",".","j","s">>) \/ includes(href, PAT_DDG) THEN <<>>
    ELSE LET domain == extractDomain(href) IN
         IF domain = <<>> THEN <<>>
         ELSE IF \/ includes(domain[1], PAT_DDG)
                 \/ includes(domain[1], PAT_WIKIPEDIA)
                 \/ includes(domain[1], PAT_WIKI)
                 \/ includes(domain[1], PAT_YOUTUBE)
                 \/ includes(domain[1], PAT_FACEBOOK)
                 \/ includes(domain[1], PAT_TWITTER)
                 \/ includes(domain[1], PAT_INSTAGRAM)
                 \/ includes(domain[1], PAT_LINKEDIN) THEN <<>>
         ELSE domain

findDomainViaDuckDuckGoHtml(response) ==
    IF ~response.ok THEN <<>> ELSE firstDomain([i \in 1..Len(response.links) |-> htmlHrefDomain(response.links[i])])

\* whether the Instant Answer step hands over to the HTML search
apiFallsBackToHtml(response) ==
    ~response.ok \/ firstDomain([i \in 1..Len(response.links) |-> apiResultDomain(response.links[i])]) = <<>>

findDomainViaDuckDuckGo_api(response) ==
    IF ~response.ok THEN <<>> ELSE firstDomain([i \in 1..Len(response.links) |-> apiResultDomain(response.links[i])])

\* findDomainFromCompanyName (three-strategy variant) as one function of the
\* three responses
findDomainFromCompanyName(wikipedia, duckduckgo, google) ==
    IF findDomainViaWikipedia(wikipedia) # <<>> THEN findDomainViaWikipedia(wikipedia)
    ELSE IF findDomainViaDuckDuckGo(duckduckgo) # <<>> THEN findDomainViaDuckDuckGo(duckduckgo)
    ELSE findDomainViaGoogle(google)

\* ------------------------------------------------------------------------
\* SpecResolve: one run of findDomainFromCompanyName, strategy by strategy
\* ------------------------------------------------------------------------
SearchUrls == { URL_ACME, URL_ACME_UPPER, URL_BARE, URL_NODOT,
                URL_WIKIPEDIA, URL_FACEBOOK, URL_GOV, URL_DDG }

RECURSIVE SeqsUpTo(_, _)
SeqsUpTo(S, n) ==
    IF n = 0 THEN { <<>> }
    ELSE LET shorter == SeqsUpTo(S, n - 1) IN
         shorter \cup { Append(q, x) : q \in shorter, x \in S }

LinkResponses ==
    { [ok |-> FALSE, links |-> <<>>] }
    \cup { [ok |-> TRUE, links |-> l] : l \in SeqsUpTo(SearchUrls, MaxSearchResults) }

HrefResponses ==
    { [ok |-> FALSE, links |-> <<>>] }
    \cup { [ok |-> TRUE, links |-> l] :
             l \in SeqsUpTo({ [uddg |-> w, url |-> u] : w \in BOOLEAN, u \in SearchUrls },
                            MaxSearchResults) }

\* the http(s) URLs the Google result pattern can capture
GoogleResponses ==
    { [ok |-> FALSE, links |-> <<>>] }
    \cup { [ok |-> TRUE, links |-> l] :
             l \in SeqsUpTo({ u \in SearchUrls : startsWith(u, str_http) \/ startsWith(u, str_https) },
                            MaxSearchResults) }

ResolveViaWikipedia ==
    /\ resolveStage = "wikipedia"
    /\ \E response \in LinkResponses :
         /\ searchResponse' = response
         /\ foundDomain' = findDomainViaWikipedia(response)
         /\ resolveStage' = IF findDomainViaWikipedia(response) # <<>> THEN "done" ELSE "duckduckgo"
    /\ UNCHANGED notResolveVars

ResolveViaDuckDuckGo ==
    /\ resolveStage = "duckduckgo"
    /\ \E response \in HrefResponses :
         /\ searchResponse' = response
         /\ foundDomain' = findDomainViaDuckDuckGo(response)
         /\ resolveStage' = IF findDomainViaDuckDuckGo(response) # <<>> THEN "done" ELSE "google"
    /\ UNCHANGED notResolveVars

ResolveViaGoogle ==
    /\ resolveStage = "google"
    /\ \E response \in GoogleResponses :
         /\ searchResponse' = response
         /\ foundDomain' = findDomainViaGoogle(response)
         /\ resolveStage' = "done"
    /\ UNCHANGED notResolveVars

\* DuckDuckGo-only variant: the Instant Answer request; a thrown error ends the
\* search with null, a non-OK status or no usable link goes on to the HTML search
ResolveViaDuckDuckGoApi ==
    /\ resolveStage = "duckduckgoApi"
    /\ \E response \in LinkResponses, thrown \in BOOLEAN :
         /\ searchResponse' = response
         /\ foundDomain' = IF thrown THEN <<>> ELSE findDomainViaDuckDuckGo_api(response)
         /\ resolveStage' = IF ~thrown /\ apiFallsBackToHtml(response)
                            THEN "duckduckgoHtml" ELSE "done"
    /\ UNCHANGED notResolveVars

ResolveViaDuckDuckGoHtml ==
    /\ resolveStage = "duckduckgoHtml"
    /\ \E response \in LinkResponses :
         /\ searchResponse' = response
         /\ foundDomain' = findDomainViaDuckDuckGoHtml(response)
         /\ resolveStage' = "done"
    /\ UNCHANGED notResolveVars

NextResolve ==
    \/ ResolveViaWikipedia \/ ResolveViaDuckDuckGo \/ ResolveViaGoogle
    \/ ResolveViaDuckDuckGoApi \/ ResolveViaDuckDuckGoHtml


\* ------------------------------------------------------------------------
\* Provider pass (fetchLogoWithFailover)
\* ------------------------------------------------------------------------
\* What a provider attempt can come to: [success |-> FALSE] for an error, or a
\* success with its logo URL, its latency and, when the follow-up fetch of the
\* bytes worked, the bytes (logoData = <<bytes>>, otherwise <<>>).
failedResult ==
    [ success |-> FALSE, provider |-> "all", logoUrl |-> <<>>, duration |-> 0,
      logoData |-> <<>>, fileSize |-> 0 ]

\* `https://www.google.com/s2/favicons?domain=${options.domain}&sz=${options.size || 256}`
faviconUrl(domain, size) ==
    URL_FAVICON \o domain \o <<"&","s","z","=">> \o numToString(IF size # 0 THEN size ELSE 256)

\* the successes of the loop over logoProviders, in list order
RECURSIVE collectSuccesses(_, _)
collectSuccesses(outcomes, i) ==
    IF i > Len(logoProviders) THEN <<>>
    ELSE LET o == outcomes[i] IN
         (IF o.success /\ o.logoUrl # <<>>
          THEN << enhancedResult(logoProviders[i], o.logoUrl, o.duration, o.logoData) >>
          ELSE <<>>)
         \o collectSuccesses(outcomes, i + 1)

\* google-favicon is attempted only after a pass without success, with a domain
faviconAttempted(domain, outcomes) ==
    collectSuccesses(outcomes, 1) = <<>> /\ domain # <<>>

\* fetchLogoWithFailover; fetchLogo does not pass the size on, so options.size
\* is undefined (0) here
fetchLogoWithFailover(domain, outcomes, favicon) ==
    LET listed == collectSuccesses(outcomes, 1)
        all == IF faviconAttempted(domain, outcomes) /\ favicon.success /\ favicon.logoData # <<>>
               THEN << enhancedResult("google-favicon", faviconUrl(domain[1], 0),
                                      favicon.duration, favicon.logoData) >>
               ELSE listed
    IN IF all # <<>> THEN selectBest(all) ELSE failedResult

\* ------------------------------------------------------------------------
\* Cache tiers (storage/kv, storage/r2, storage/cache)
\* ------------------------------------------------------------------------
MaxCacheAge  == 1     \* maxCacheAge, in clock units
MaxFetchTime == 2     \* the clock stops here
MaxFaults    == 1     \* store operations that throw in one run

MetadataFields == { "provider", "retrievedAt", "responseTime", "originalUrl",
                    "domain", "companyName", "size", "format", "fileSize" }

\* domain, companyName and size hold undefined when they are the empty string
\* or 0 (when defined they never are '' or 0)
isUndefinedField(metadata, f) ==
    CASE f \in { "domain", "companyName" } -> metadata[f] = <<>>
      [] f = "size" -> metadata[f] = 0
      [] OTHER -> FALSE

\* JSON.stringify(metadata): properties holding undefined are left out
stringifyMetadata(metadata) ==
    [ f \in { g \in MetadataFields : ~isUndefinedField(metadata, g) } |-> metadata[f] ]

\* JSON.parse(json) as LogoMetadata: a property that is not there reads undefined
parseMetadata(json) ==
    [ f \in MetadataFields |->
        IF f \in DOMAIN json THEN json[f]
        ELSE IF f = "size" THEN 0 ELSE <<>> ]

\* new Date().toISOString() and new Date(iso).getTime(), on whole clock units
toISOString(time) == numToString(time)
dateGetTime(iso) == parseInt(iso)

isMetadataStale_atMaxAge(metadata, maxAge, now) ==
    now - dateGetTime(metadata.retrievedAt) >= maxAge

isMetadataStale(metadata, maxAge, now) ==
    now - dateGetTime(metadata.retrievedAt) > maxAge

storeGet(store, key) == IF key \in DOMAIN store THEN << store[key] >> ELSE <<>>

\* a put that keeps the value already stored under the key
storePut_keepFirst(store, key, value) ==
    [ k \in DOMAIN store \cup {key} |-> IF k \in DOMAIN store THEN store[k] ELSE value ]

\* a put that keeps the value it replaces under a second key
storePut_keepOld(store, key, value) ==
    [ k \in DOMAIN store \cup {key} \cup (IF key \in DOMAIN store THEN {key \o <<"~">>} ELSE {}) |->
        IF k = key THEN value ELSE IF k \in DOMAIN store THEN store[k] ELSE store[key] ]

storePut(store, key, value) ==
    [ k \in DOMAIN store \cup {key} |-> IF k = key THEN value ELSE store[k] ]

storeDelete(store, key) == [ k \in DOMAIN store \ {key} |-> store[k] ]

\* the key getLogoFromR2 reads, with the size left out
logoLookupKey_noSize(options) ==
    generateLogoKey(options.domain, options.companyName, options.format, 0)

\* the key getLogoFromR2 reads
logoLookupKey(options) ==
    generateLogoKey(options.domain, options.companyName, options.format, options.size)

\* the key getMetadataFromKV reads
kvLookupKey(options) ==
    generateKVMetadataKey(options.domain, options.companyName, options.format, options.size)

\* the key getMetadataFromR2 reads
metadataLookupKey(options) == generateMetadataKey(options.domain, options.companyName)

\* the keys storeLogoInR2 and storeMetadataInKV write
logoStoreKey(metadata) ==
    generateLogoKey(metadata.domain, metadata.companyName, metadata.format, metadata.size)

metadataStoreKey(metadata) == generateMetadataKey(metadata.domain, metadata.companyName)

kvStoreKey(metadata) ==
    generateKVMetadataKey(metadata.domain, metadata.companyName, metadata.format, metadata.size)

\* the keys invalidateLogoCache deletes: the logo key is built without the size
invalidateLogoKey(metadata) ==
    generateLogoKey(metadata.domain, metadata.companyName, metadata.format, 0)

invalidateMetadataKey(metadata) == generateMetadataKey(metadata.domain, metadata.companyName)

invalidateKVKey(metadata) ==
    generateKVMetadataKey(metadata.domain, metadata.companyName, metadata.format, metadata.size)

\* ------------------------------------------------------------------------
\* Response headers (getCacheControlHeaders)
\* ------------------------------------------------------------------------
\* headers that name the provider
getCacheControlHeaders_exposesProvider(metadata, maxAge) ==
    ("Cache-Control" :> (<<"public, max-age=">> \o numToString(maxAge) \o <<", immutable">>))
        @@ ("X-Content-Type-Options" :> <<"nosniff">>)
        @@ (IF metadata # <<>>
            THEN ("X-Logo-Provider" :> <<metadata[1].provider>>)
                    @@ ("X-Logo-Retrieved-At" :> metadata[1].retrievedAt)
            ELSE <<>>)

\* getCacheControlHeaders(metadata?, maxAge): a header value is a string in parts
getCacheControlHeaders(metadata, maxAge) ==
    ("Cache-Control" :> (<<"public, max-age=">> \o numToString(maxAge) \o <<", immutable">>))
        @@ ("X-Content-Type-Options" :> <<"nosniff">>)
        @@ (IF metadata # <<>>
            THEN ("X-Logo-Retrieved-At" :> metadata[1].retrievedAt)
            ELSE <<>>)

\* the metadata a logo response can carry: none, or what fetchLogo built or read
HeaderMetadata ==
    { <<>> } \cup
    { << [ provider |-> provider, retrievedAt |-> toISOString(time), responseTime |-> 1,
           originalUrl |-> url, domain |-> <<DOMAIN_ACME>>, companyName |-> <<>>,
           size |-> 0, format |-> str_png, fileSize |-> fileSize ] >> :
        provider \in { logoProviders[i] : i \in 1..Len(logoProviders) },
        time \in 0..MaxFetchTime, url \in RankUrls, fileSize \in 1..MaxFileSize }

\* the handler builds the headers of two responses (maxAge is left to its default)
BuildHeaders ==
    /\ logoHeaders.headers = <<>>
    /\ logoHeaders' = [logoHeaders EXCEPT !.headers =
                          << getCacheControlHeaders(logoHeaders.metadata[1], 31536000),
                             getCacheControlHeaders(logoHeaders.metadata[2], 31536000) >>]
    /\ UNCHANGED notHeaderVars

NextHeaders == BuildHeaders

\* ------------------------------------------------------------------------
\* fetchLogo, one step per awaited call
\* ------------------------------------------------------------------------
\* the requests of one run, numbered in arrival order
Procs == { 1, 2 }

IdleReq ==
    [ pc |-> "idle", options |-> <<>>, metadata |-> <<>>, result |-> <<>>,
      foundDomain |-> <<>>, newMetadata |-> <<>>, stored |-> FALSE, kvStored |-> FALSE,
      response |-> <<>>, passes |-> 0, resolverCalls |-> 0, providerCalls |-> 0,
      faulted |-> FALSE, staleSeen |-> FALSE, lookupAt |-> 0, startEmpty |-> FALSE,
      firstPassFailed |-> FALSE, lookupDone |-> FALSE, startedAt |-> 0,
      blobStored |-> FALSE, metadataFrom |-> "none" ]

\* the metadata object fetchLogo builds for a result that carries bytes
newLogoMetadata(options, result, now) ==
    [ provider     |-> result.provider,
      retrievedAt  |-> toISOString(now),
      responseTime |-> result.duration,
      originalUrl  |-> result.logoUrl,
      domain       |-> options.domain,
      companyName  |-> options.companyName,
      size         |-> options.size,
      format       |-> options.format,
      fileSize     |-> result.fileSize ]

\* the fallback test with the domain and company-name conditions dropped
needsDomainFallback_anyRequest(result, options) == ~result.success

\* if (!result.success && !domain && companyName)
needsDomainFallback(result, options) ==
    ~result.success /\ options.domain = <<>> /\ options.companyName # <<>>

\* a failure result without the error description
failureResponse_noError ==
    [ success |-> FALSE, logo |-> <<>>, logoUrl |-> <<>>, metadata |-> <<>>,
      fromCache |-> FALSE, error |-> FALSE ]

failureResponse ==
    [ success |-> FALSE, logo |-> <<>>, logoUrl |-> <<>>, metadata |-> <<>>,
      fromCache |-> FALSE, error |-> TRUE ]

urlOnlyResponse(result) ==
    [ success |-> TRUE, logo |-> <<>>, logoUrl |-> <<result.logoUrl>>, metadata |-> <<>>,
      fromCache |-> FALSE, error |-> FALSE ]

storedResponse(result, metadata) ==
    [ success |-> TRUE, logo |-> result.logoData, logoUrl |-> <<result.logoUrl>>,
      metadata |-> <<metadata>>, fromCache |-> FALSE, error |-> FALSE ]

cacheHitResponse(logo, metadata) ==
    [ success |-> TRUE, logo |-> <<logo>>, logoUrl |-> <<>>, metadata |-> metadata,
      fromCache |-> TRUE, error |-> FALSE ]


\* a request that stores the metadata of a result without bytes
afterFetch_storesUrlOnly(r, result, now) ==
    IF ~result.success \/ result.logoUrl = <<>>
    THEN [r EXCEPT !.result = <<result>>, !.response = <<failureResponse>>, !.pc = "done"]
    ELSE [r EXCEPT !.result = <<result>>,
                   !.newMetadata = << newLogoMetadata(r.options, result, now) >>,
                   !.pc = IF result.logoData # <<>> THEN "storeLogo" ELSE "storeMetadata"]

\* what the request does once the provider fetch (and its retry) is over
afterFetch(r, result, now) ==
    IF ~result.success \/ result.logoUrl = <<>>
    THEN [r EXCEPT !.result = <<result>>, !.response = <<failureResponse>>, !.pc = "done"]
    ELSE IF result.logoData # <<>>
    THEN [r EXCEPT !.result = <<result>>,
                   !.newMetadata = << newLogoMetadata(r.options, result, now) >>,
                   !.pc = "storeLogo"]
    ELSE [r EXCEPT !.result = <<result>>, !.response = << urlOnlyResponse(result) >>,
                   !.pc = "done"]

\* what the lookup does with the metadata it found
afterMetadata(r, metadata, now) ==
    IF isMetadataStale(metadata, MaxCacheAge, now)
    THEN [r EXCEPT !.metadata = <<metadata>>, !.lookupAt = now, !.staleSeen = TRUE,
                   !.pc = "invalidateLogo"]
    ELSE [r EXCEPT !.metadata = <<metadata>>, !.lookupAt = now, !.pc = "cachedLogo"]

\* the requests the endpoints make: a domain or a company name, never both
FetchDomains == { DOMAIN_ACME }
FetchNames   == { NAME_ACME }
FetchFormats == { str_png }
FetchSizes   == { 0, 64 }

FetchRequests ==
    { [domain |-> d, companyName |-> <<>>, format |-> f, size |-> sz, useCache |-> TRUE] :
        d \in FetchDomains, f \in FetchFormats, sz \in FetchSizes }
    \cup
    { [domain |-> <<>>, companyName |-> n, format |-> str_png, size |-> 0, useCache |-> TRUE] :
        n \in FetchNames }

\* The logo one provider serves is fixed; an attempt fails or succeeds with
\* the bytes, and the first provider can also succeed without them (the
\* follow-up fetch of the bytes failed).
ProviderLogoUrl(i) == IF logoProviders[i] \in {"wikipedia", "wikimedia"} THEN url_svg ELSE url_png

ProviderLogoData(i) == [k \in 1..((i % 2) + 1) |-> i]

FetchOutcomes(i) ==
    { [success |-> FALSE, logoUrl |-> <<>>, duration |-> 1, logoData |-> <<>>],
      [success |-> TRUE, logoUrl |-> ProviderLogoUrl(i), duration |-> 2,
       logoData |-> << ProviderLogoData(i) >>] }
    \cup
    (IF i = 1
     THEN { [success |-> TRUE, logoUrl |-> ProviderLogoUrl(i), duration |-> 1, logoData |-> <<>>] }
     ELSE {})

PassOutcomes ==
    { <<o1, o2, o3, o4>> : o1 \in FetchOutcomes(1), o2 \in FetchOutcomes(2),
                           o3 \in FetchOutcomes(3), o4 \in FetchOutcomes(4) }

FaviconOutcomes ==
    { [success |-> FALSE, duration |-> 1, logoData |-> <<>>],
      [success |-> TRUE, duration |-> 1, logoData |-> << <<9>> >>] }

FetchSearches ==
    { [wikipedia |-> w, duckduckgo |-> [ok |-> FALSE, links |-> <<>>], google |-> g] :
        w \in { [ok |-> FALSE, links |-> <<>>], [ok |-> TRUE, links |-> <<URL_ACME>>] },
        g \in { [ok |-> FALSE, links |-> <<>>], [ok |-> TRUE, links |-> <<URL_FACEBOOK>>] } }

\* ------------------------------------------------------------------------
\* SpecPass: one call of fetchLogoWithFailover, attempt by attempt
\* ------------------------------------------------------------------------
\* in one pass the follow-up fetch of the bytes can fail for any provider
AttemptOutcomes(i) ==
    FetchOutcomes(i) \cup
    { [success |-> TRUE, logoUrl |-> ProviderLogoUrl(i), duration |-> 1, logoData |-> <<>>] }

\* a provider pass that counts a success without bytes as an error
AttemptProvider_dropsWithoutBytes ==
    /\ pass.stage = "loop"
    /\ LET i == Len(pass.attempted) + 1 IN
       \E o \in AttemptOutcomes(i) :
          LET success == o.success /\ o.logoUrl # <<>> IN
          /\ successfulResults' =
                IF success /\ o.logoData # <<>>
                THEN Append(successfulResults,
                            enhancedResult(logoProviders[i], o.logoUrl, o.duration, o.logoData))
                ELSE successfulResults
          /\ pass' = [pass EXCEPT !.attempted = Append(@, [provider |-> logoProviders[i],
                                                            success |-> success]),
                                  !.stage = IF i = Len(logoProviders) THEN "favicon" ELSE "loop"]
    /\ UNCHANGED <<selected, notRankVars>>

\* a provider pass that stops at the first success
AttemptProvider_stopAtFirstSuccess ==
    /\ pass.stage = "loop"
    /\ LET i == Len(pass.attempted) + 1 IN
       \E o \in AttemptOutcomes(i) :
          LET success == o.success /\ o.logoUrl # <<>> IN
          /\ successfulResults' =
                IF success
                THEN Append(successfulResults,
                            enhancedResult(logoProviders[i], o.logoUrl, o.duration, o.logoData))
                ELSE successfulResults
          /\ pass' = [pass EXCEPT !.attempted = Append(@, [provider |-> logoProviders[i],
                                                            success |-> success]),
                                  !.stage = IF success THEN "rank"
                                            ELSE IF i = Len(logoProviders) THEN "favicon"
                                            ELSE "loop"]
    /\ UNCHANGED <<selected, notRankVars>>

\* for (const provider of logoProviders): one turn of the loop, the call of
\* provider.fetch and the push of its success
AttemptProvider ==
    /\ pass.stage = "loop"
    /\ LET i == Len(pass.attempted) + 1 IN
       \E o \in AttemptOutcomes(i) :
          LET success == o.success /\ o.logoUrl # <<>> IN
          /\ successfulResults' =
                IF success
                THEN Append(successfulResults,
                            enhancedResult(logoProviders[i], o.logoUrl, o.duration, o.logoData))
                ELSE successfulResults
          /\ pass' = [pass EXCEPT !.attempted = Append(@, [provider |-> logoProviders[i],
                                                            success |-> success]),
                                  !.stage = IF i = Len(logoProviders) THEN "favicon" ELSE "loop"]
    /\ UNCHANGED <<selected, notRankVars>>

\* if (successfulResults.length === 0 && options.domain): google-favicon
AttemptFavicon ==
    /\ pass.stage = "favicon"
    /\ IF successfulResults = <<>> /\ pass.domain # <<>>
       THEN \E favicon \in FaviconOutcomes :
              /\ successfulResults' =
                    IF favicon.success /\ favicon.logoData # <<>>
                    THEN << enhancedResult("google-favicon", faviconUrl(pass.domain[1], 0),
                                           favicon.duration, favicon.logoData) >>
                    ELSE successfulResults
              /\ pass' = [pass EXCEPT !.faviconTried = TRUE, !.stage = "rank"]
       ELSE /\ pass' = [pass EXCEPT !.stage = "rank"]
            /\ UNCHANGED successfulResults
    /\ UNCHANGED <<selected, notRankVars>>

\* if (successfulResults.length > 0) sort and return the first, else the failure
RankPass ==
    /\ pass.stage = "rank"
    /\ selected' = << IF successfulResults # <<>> THEN selectBest(successfulResults)
                      ELSE failedResult >>
    /\ pass' = [pass EXCEPT !.stage = "done"]
    /\ UNCHANGED <<successfulResults, notRankVars>>

NextPass == AttemptProvider \/ AttemptFavicon \/ RankPass

\* ------------------------------------------------------------------------
\* SpecRankPair: the ranking step of a pass that collected two candidates
\* ------------------------------------------------------------------------
url_jpg == <<"l",".","j","p","g">>
url_gif == <<"l",".","g","i","f">>

PairUrls == { url_svg, url_png, url_jpg, url_gif }

\* no bytes fetched, or a body of 0..MaxFileSize bytes
PairData == { <<>> } \cup { << [i \in 1..n |-> 1] >> : n \in 0..MaxFileSize }

PairCandidates(provider) ==
    { enhancedResult(provider, u, d, data) :
        u \in PairUrls, d \in 0..MaxDuration, data \in PairData }

\* two successes of one pass, in provider order
PairLists ==
    { <<a, b>> : a \in UNION { PairCandidates(logoProviders[i]) : i \in 1..Len(logoProviders) },
                 b \in UNION { PairCandidates(logoProviders[i]) : i \in 1..Len(logoProviders) } }

ProviderIndex(provider) == CHOOSE i \in 1..Len(logoProviders) : logoProviders[i] = provider

NextRankPair == RankPass

\* a store operation throws only while the fault budget lasts
FaultChoices == { FALSE } \cup (IF nFaults < MaxFaults THEN { TRUE } ELSE {})

countFault(fault) == nFaults' = IF fault THEN nFaults + 1 ELSE nFaults

\* request p arrives once the requests before it are over: no two requests
\* are in flight together
StartRequest(p) ==
    /\ reqs[p].pc = "idle"
    /\ \A q \in Procs : q < p => reqs[q].pc = "done"
    /\ \A q \in Procs : q > p => reqs[q].pc = "idle"
    /\ \E options \in FetchRequests :
         reqs' = [reqs EXCEPT ![p] =
                    [IdleReq EXCEPT !.pc = IF options.useCache THEN "kvMeta" ELSE "providers",
                                    !.options = options,
                                    !.startedAt = fetchNow,
                                    !.startEmpty = (DOMAIN kv = {} /\ DOMAIN r2 = {})]]
    /\ UNCHANGED <<kv, r2, fetchNow, nFaults, notFetchVars>>

\* metadata = await getMetadataFromKV(...)
GetMetadataFromKV(p) ==
    /\ reqs[p].pc = "kvMeta"
    /\ \E fault \in FaultChoices :
         LET r == reqs[p]
             json == IF fault THEN <<>> ELSE storeGet(kv, kvLookupKey(r.options))
         IN /\ reqs' = [reqs EXCEPT ![p] =
                          IF json = <<>>
                          THEN [r EXCEPT !.pc = "r2Meta", !.faulted = @ \/ fault]
                          ELSE [afterMetadata(r, parseMetadata(json[1]), fetchNow)
                                  EXCEPT !.metadataFrom = "kv"]]
            /\ countFault(fault)
    /\ UNCHANGED <<kv, r2, fetchNow, notFetchVars>>

\* a lookup without the sidecar fallback: no fast-tier metadata, straight to the blob
GetMetadataFromR2_noFallback(p) ==
    /\ reqs[p].pc = "r2Meta"
    /\ reqs' = [reqs EXCEPT ![p].pc = "cachedLogo"]
    /\ UNCHANGED <<kv, r2, fetchNow, nFaults, notFetchVars>>

\* metadata = await getMetadataFromR2(...), then the staleness test
GetMetadataFromR2(p) ==
    /\ reqs[p].pc = "r2Meta"
    /\ \E fault \in FaultChoices :
         LET r == reqs[p]
             json == IF fault THEN <<>> ELSE storeGet(r2, metadataLookupKey(r.options))
         IN /\ reqs' = [reqs EXCEPT ![p] =
                          IF json = <<>>
                          THEN [r EXCEPT !.pc = "cachedLogo", !.faulted = @ \/ fault]
                          ELSE [afterMetadata(r, parseMetadata(json[1]), fetchNow)
                                  EXCEPT !.metadataFrom = "r2"]]
            /\ countFault(fault)
    /\ UNCHANGED <<kv, r2, fetchNow, notFetchVars>>

\* a lookup that answers a blob missing under fresh metadata with an error
GetLogoFromR2_missingIsError(p) ==
    /\ reqs[p].pc = "cachedLogo"
    /\ \E fault \in FaultChoices :
         LET r == reqs[p]
             cachedLogo == IF fault THEN <<>> ELSE storeGet(r2, logoLookupKey(r.options))
         IN /\ reqs' = [reqs EXCEPT ![p] =
                          IF cachedLogo # <<>>
                          THEN [r EXCEPT !.response = << cacheHitResponse(cachedLogo[1], r.metadata) >>,
                                         !.pc = "done"]
                          ELSE IF r.metadata # <<>>
                          THEN [r EXCEPT !.response = << failureResponse >>, !.pc = "done",
                                         !.lookupDone = TRUE, !.faulted = @ \/ fault]
                          ELSE [r EXCEPT !.pc = "providers", !.lookupDone = TRUE,
                                         !.faulted = @ \/ fault]]
            /\ countFault(fault)
    /\ UNCHANGED <<kv, r2, fetchNow, notFetchVars>>

\* cachedLogo = await getLogoFromR2(...): under fresh metadata, or the direct
\* lookup when no metadata was found
GetLogoFromR2(p) ==
    /\ reqs[p].pc = "cachedLogo"
    /\ \E fault \in FaultChoices :
         LET r == reqs[p]
             cachedLogo == IF fault THEN <<>> ELSE storeGet(r2, logoLookupKey(r.options))
         IN /\ reqs' = [reqs EXCEPT ![p] =
                          IF cachedLogo # <<>>
                          THEN [r EXCEPT !.response = << cacheHitResponse(cachedLogo[1], r.metadata) >>,
                                         !.pc = "done"]
                          ELSE [r EXCEPT !.pc = "providers", !.lookupDone = TRUE,
                                         !.faulted = @ \/ fault]]
            /\ countFault(fault)
    /\ UNCHANGED <<kv, r2, fetchNow, notFetchVars>>

\* an invalidation whose failed delete fails the request
InvalidateDeleteLogo_failsRequest(p) ==
    /\ reqs[p].pc = "invalidateLogo"
    /\ \E fault \in FaultChoices :
         LET r == reqs[p] IN
         /\ r2' = IF fault THEN r2 ELSE storeDelete(r2, invalidateLogoKey(r.metadata[1]))
         /\ reqs' = [reqs EXCEPT ![p] =
                       IF fault
                       THEN [r EXCEPT !.response = << failureResponse >>, !.pc = "done",
                                      !.lookupDone = TRUE, !.faulted = TRUE]
                       ELSE [r EXCEPT !.pc = "invalidateMetadata"]]
         /\ countFault(fault)
    /\ UNCHANGED <<kv, fetchNow, notFetchVars>>

\* invalidateLogoCache: await r2Bucket.delete(logoKey)
InvalidateDeleteLogo(p) ==
    /\ reqs[p].pc = "invalidateLogo"
    /\ \E fault \in FaultChoices :
         LET r == reqs[p] IN
         /\ r2' = IF fault THEN r2 ELSE storeDelete(r2, invalidateLogoKey(r.metadata[1]))
         /\ reqs' = [reqs EXCEPT ![p] =
                       IF fault
                       THEN [r EXCEPT !.pc = "providers", !.lookupDone = TRUE, !.faulted = TRUE]
                       ELSE [r EXCEPT !.pc = "invalidateMetadata"]]
         /\ countFault(fault)
    /\ UNCHANGED <<kv, fetchNow, notFetchVars>>

\* invalidateLogoCache: await r2Bucket.delete(metadataKey)
InvalidateDeleteMetadata(p) ==
    /\ reqs[p].pc = "invalidateMetadata"
    /\ \E fault \in FaultChoices :
         LET r == reqs[p] IN
         /\ r2' = IF fault THEN r2 ELSE storeDelete(r2, invalidateMetadataKey(r.metadata[1]))
         /\ reqs' = [reqs EXCEPT ![p] =
                       IF fault
                       THEN [r EXCEPT !.pc = "providers", !.lookupDone = TRUE, !.faulted = TRUE]
                       ELSE [r EXCEPT !.pc = "invalidateKV"]]
         /\ countFault(fault)
    /\ UNCHANGED <<kv, fetchNow, notFetchVars>>

\* invalidateLogoCache: await deleteMetadataFromKV(...)
InvalidateDeleteKV(p) ==
    /\ reqs[p].pc = "invalidateKV"
    /\ \E fault \in FaultChoices :
         LET r == reqs[p] IN
         /\ kv' = IF fault THEN kv ELSE storeDelete(kv, invalidateKVKey(r.metadata[1]))
         /\ reqs' = [reqs EXCEPT ![p] =
                       [r EXCEPT !.pc = "providers", !.lookupDone = TRUE, !.faulted = @ \/ fault]]
         /\ countFault(fault)
    /\ UNCHANGED <<r2, fetchNow, notFetchVars>>

\* a provider pass that records a failed fetch in the fast tier
ProviderPass_cachesFailure(p) ==
    /\ reqs[p].pc = "providers"
    /\ \E outcomes \in PassOutcomes, favicon \in FaviconOutcomes :
         LET r == reqs[p]
             result == fetchLogoWithFailover(r.options.domain, outcomes, favicon)
             calls == Len(logoProviders)
                      + (IF faviconAttempted(r.options.domain, outcomes) THEN 1 ELSE 0)
             r1 == [r EXCEPT !.passes = @ + 1, !.providerCalls = @ + calls,
                             !.firstPassFailed = ~result.success, !.lookupDone = TRUE]
         IN /\ reqs' = [reqs EXCEPT ![p] =
                          IF needsDomainFallback(result, r.options)
                          THEN [r1 EXCEPT !.result = <<result>>, !.pc = "resolve"]
                          ELSE afterFetch(r1, result, fetchNow)]
            /\ kv' = IF ~result.success /\ ~needsDomainFallback(result, r.options)
                     THEN storePut(kv, kvLookupKey(r.options), [retrievedAt |-> toISOString(fetchNow)])
                     ELSE kv
    /\ UNCHANGED <<r2, fetchNow, nFaults, notFetchVars>>

\* result = await fetchLogoWithFailover({ domain, companyName, format, ... })
ProviderPass(p) ==
    /\ reqs[p].pc = "providers"
    /\ \E outcomes \in PassOutcomes, favicon \in FaviconOutcomes :
         LET r == reqs[p]
             result == fetchLogoWithFailover(r.options.domain, outcomes, favicon)
             calls == Len(logoProviders)
                      + (IF faviconAttempted(r.options.domain, outcomes) THEN 1 ELSE 0)
             r1 == [r EXCEPT !.passes = @ + 1, !.providerCalls = @ + calls,
                             !.firstPassFailed = ~result.success, !.lookupDone = TRUE]
         IN reqs' = [reqs EXCEPT ![p] =
                       IF needsDomainFallback(result, r.options)
                       THEN [r1 EXCEPT !.result = <<result>>, !.pc = "resolve"]
                       ELSE afterFetch(r1, result, fetchNow)]
    /\ UNCHANGED <<kv, r2, fetchNow, nFaults, notFetchVars>>

\* foundDomain = await findDomainFromCompanyName(companyName)
ResolveDomain(p) ==
    /\ reqs[p].pc = "resolve"
    /\ \E search \in FetchSearches :
         LET r == reqs[p]
             found == findDomainFromCompanyName(search.wikipedia, search.duckduckgo, search.google)
             r1 == [r EXCEPT !.resolverCalls = @ + 1, !.foundDomain = found]
         IN reqs' = [reqs EXCEPT ![p] =
                       IF found # <<>> THEN [r1 EXCEPT !.pc = "retry"]
                       ELSE afterFetch(r1, r.result[1], fetchNow)]
    /\ UNCHANGED <<kv, r2, fetchNow, nFaults, notFetchVars>>

\* a retry that goes back to the search when its pass found nothing
ProviderRetry_searchAgain(p) ==
    /\ reqs[p].pc = "retry"
    /\ \E outcomes \in PassOutcomes, favicon \in FaviconOutcomes :
         LET r == reqs[p]
             result == fetchLogoWithFailover(r.foundDomain, outcomes, favicon)
             calls == Len(logoProviders)
                      + (IF faviconAttempted(r.foundDomain, outcomes) THEN 1 ELSE 0)
             r1 == [r EXCEPT !.passes = @ + 1, !.providerCalls = @ + calls]
         IN reqs' = [reqs EXCEPT ![p] =
                       IF result.success THEN afterFetch(r1, result, fetchNow)
                       ELSE [r EXCEPT !.pc = "resolve"]]
    /\ UNCHANGED <<kv, r2, fetchNow, nFaults, notFetchVars>>

\* result = await fetchLogoWithFailover({ domain: foundDomain, companyName, ... })
ProviderRetry(p) ==
    /\ reqs[p].pc = "retry"
    /\ \E outcomes \in PassOutcomes, favicon \in FaviconOutcomes :
         LET r == reqs[p]
             result == fetchLogoWithFailover(r.foundDomain, outcomes, favicon)
             calls == Len(logoProviders)
                      + (IF faviconAttempted(r.foundDomain, outcomes) THEN 1 ELSE 0)
             r1 == [r EXCEPT !.passes = @ + 1, !.providerCalls = @ + calls]
         IN reqs' = [reqs EXCEPT ![p] = afterFetch(r1, result, fetchNow)]
    /\ UNCHANGED <<kv, r2, fetchNow, nFaults, notFetchVars>>

\* a store that goes on to the metadata writes after the blob write threw
StoreLogoBlob_continuesAfterFailure(p) ==
    /\ reqs[p].pc = "storeLogo"
    /\ \E fault \in FaultChoices :
         LET r == reqs[p] IN
         /\ r2' = IF fault THEN r2
                  ELSE storePut(r2, logoStoreKey(r.newMetadata[1]), r.result[1].logoData[1])
         /\ reqs' = [reqs EXCEPT ![p] =
                       [r EXCEPT !.blobStored = ~fault, !.faulted = @ \/ fault,
                                 !.pc = "storeMetadata"]]
         /\ countFault(fault)
    /\ UNCHANGED <<kv, fetchNow, notFetchVars>>

\* storeLogoInR2: await r2Bucket.put(logoKey, logo, ...)
StoreLogoBlob(p) ==
    /\ reqs[p].pc = "storeLogo"
    /\ \E fault \in FaultChoices :
         LET r == reqs[p] IN
         /\ r2' = IF fault THEN r2
                  ELSE storePut(r2, logoStoreKey(r.newMetadata[1]), r.result[1].logoData[1])
         /\ reqs' = [reqs EXCEPT ![p] =
                       IF fault
                       THEN [r EXCEPT !.response = << urlOnlyResponse(r.result[1]) >>,
                                      !.pc = "done", !.faulted = TRUE]
                       ELSE [r EXCEPT !.blobStored = TRUE, !.pc = "storeMetadata"]]
         /\ countFault(fault)
    /\ UNCHANGED <<kv, fetchNow, notFetchVars>>

\* storeLogoInR2: await r2Bucket.put(metadataKey, metadataJson, ...)
StoreLogoMetadata(p) ==
    /\ reqs[p].pc = "storeMetadata"
    /\ \E fault \in FaultChoices :
         LET r == reqs[p] IN
         /\ r2' = IF fault THEN r2
                  ELSE storePut(r2, metadataStoreKey(r.newMetadata[1]),
                                stringifyMetadata(r.newMetadata[1]))
         /\ reqs' = [reqs EXCEPT ![p] =
                       IF fault
                       THEN [r EXCEPT !.response = << urlOnlyResponse(r.result[1]) >>,
                                      !.pc = "done", !.faulted = TRUE]
                       ELSE [r EXCEPT !.stored = TRUE, !.pc = "storeKV"]]
         /\ countFault(fault)
    /\ UNCHANGED <<kv, fetchNow, notFetchVars>>

\* if (stored && kvNamespace) await storeMetadataInKV(...); then the response
StoreMetadataInKV(p) ==
    /\ reqs[p].pc = "storeKV"
    /\ \E fault \in FaultChoices :
         LET r == reqs[p] IN
         /\ kv' = IF fault THEN kv
                  ELSE storePut(kv, kvStoreKey(r.newMetadata[1]), stringifyMetadata(r.newMetadata[1]))
         /\ reqs' = [reqs EXCEPT ![p] =
                       [r EXCEPT !.kvStored = ~fault, !.faulted = @ \/ fault,
                                 !.response = << storedResponse(r.result[1], r.newMetadata[1]) >>,
                                 !.pc = "done"]]
         /\ countFault(fault)
    /\ UNCHANGED <<r2, fetchNow, notFetchVars>>

\* time passes between two requests; a request is short against the clock
\* unit, and the clock is read from the arrival of the first request
FetchTick ==
    /\ fetchNow < MaxFetchTime
    /\ \A q \in Procs : reqs[q].pc \in {"idle", "done"}
    /\ \E q \in Procs : reqs[q].pc = "done"
    /\ \E q \in Procs : reqs[q].pc = "idle"
    /\ fetchNow' = fetchNow + 1
    /\ UNCHANGED <<kv, r2, reqs, nFaults, notFetchVars>>

NextFetch ==
    \/ \E p \in Procs : StartRequest(p)
    \/ \E p \in Procs : GetMetadataFromKV(p)
    \/ \E p \in Procs : GetMetadataFromR2(p)
    \/ \E p \in Procs : GetLogoFromR2(p)
    \/ \E p \in Procs : InvalidateDeleteLogo(p)
    \/ \E p \in Procs : InvalidateDeleteMetadata(p)
    \/ \E p \in Procs : InvalidateDeleteKV(p)
    \/ \E p \in Procs : ProviderPass(p)
    \/ \E p \in Procs : ResolveDomain(p)
    \/ \E p \in Procs : ProviderRetry(p)
    \/ \E p \in Procs : StoreLogoBlob(p)
    \/ \E p \in Procs : StoreLogoMetadata(p)
    \/ \E p \in Procs : StoreMetadataInKV(p)
    \/ FetchTick

\* one step of request p after its arrival: the external call it is waiting
\* for returns or fails and the code runs on to the next await or return
RequestStep(p) ==
    \/ GetMetadataFromKV(p)
    \/ GetMetadataFromR2(p)
    \/ GetLogoFromR2(p)
    \/ InvalidateDeleteLogo(p)
    \/ InvalidateDeleteMetadata(p)
    \/ InvalidateDeleteKV(p)
    \/ ProviderPass(p)
    \/ ResolveDomain(p)
    \/ ProviderRetry(p)
    \/ StoreLogoBlob(p)
    \/ StoreLogoMetadata(p)
    \/ StoreMetadataInKV(p)

\* Concurrent requests: a Worker serves requests concurrently and every await
\* of fetchLogo is a point where another request can run, so a request may
\* arrive while another is in flight.  The requests carry a domain, so the
\* company-name fallback (resolver and retry) is never entered.
StartConcurrent(p) ==
    /\ reqs[p].pc = "idle"
    /\ \E options \in { o \in FetchRequests : o.domain # <<>> } :
         reqs' = [reqs EXCEPT ![p] =
                    [IdleReq EXCEPT !.pc = IF options.useCache THEN "kvMeta" ELSE "providers",
                                    !.options = options,
                                    !.startedAt = fetchNow,
                                    !.startEmpty = (DOMAIN kv = {} /\ DOMAIN r2 = {})]]
    /\ UNCHANGED <<kv, r2, fetchNow, nFaults, notFetchVars>>

NextFetchConc ==
    \/ \E p \in Procs : StartConcurrent(p)
    \/ \E p \in Procs : GetMetadataFromKV(p)
    \/ \E p \in Procs : GetMetadataFromR2(p)
    \/ \E p \in Procs : GetLogoFromR2(p)
    \/ \E p \in Procs : InvalidateDeleteLogo(p)
    \/ \E p \in Procs : InvalidateDeleteMetadata(p)
    \/ \E p \in Procs : InvalidateDeleteKV(p)
    \/ \E p \in Procs : ProviderPass(p)
    \/ \E p \in Procs : StoreLogoBlob(p)
    \/ \E p \in Procs : StoreLogoMetadata(p)
    \/ \E p \in Procs : StoreMetadataInKV(p)
    \/ FetchTick

\* ------------------------------------------------------------------------
\* Specifications: one per component; the other components stay idle
\* ------------------------------------------------------------------------
\* no key derived yet; the other components are not running
InitKeys ==
    /\ keyIn = <<>>
    /\ keyOut = <<>>
    /\ successfulResults = <<>>
    /\ selected = <<>>
    /\ pass = <<>>
    /\ statsKV = <<>>
    /\ rlNow = 0
    /\ rlLog = <<>>
    /\ rlCalls = <<>>
    /\ endpoint = <<>>
    /\ magicLinks = <<>>
    /\ verifyCalls = <<>>
    /\ logoHeaders = <<>>
    /\ resolveStage = "idle"
    /\ searchResponse = <<>>
    /\ foundDomain = <<>>
    /\ kv = <<>>
    /\ r2 = <<>>
    /\ fetchNow = 0
    /\ reqs = <<>>
    /\ nFaults = 0

SpecKeys == InitKeys /\ [][NextKeys]_vars

\* a provider pass has collected its successes (RankLists); nothing selected yet; the other components are not running
InitRank ==
    /\ successfulResults \in RankLists
    /\ selected = <<>>
    /\ pass = <<>>
    /\ keyIn = <<>>
    /\ keyOut = <<>>
    /\ statsKV = <<>>
    /\ rlNow = 0
    /\ rlLog = <<>>
    /\ rlCalls = <<>>
    /\ endpoint = <<>>
    /\ magicLinks = <<>>
    /\ verifyCalls = <<>>
    /\ logoHeaders = <<>>
    /\ resolveStage = "idle"
    /\ searchResponse = <<>>
    /\ foundDomain = <<>>
    /\ kv = <<>>
    /\ r2 = <<>>
    /\ fetchNow = 0
    /\ reqs = <<>>
    /\ nFaults = 0

SpecRank == InitRank /\ [][NextRank]_vars

\* before the first provider is attempted, for a request with or without a
\* domain; the other components are not running
InitPass ==
    /\ pass \in { [domain |-> d, attempted |-> <<>>, faviconTried |-> FALSE, stage |-> "loop"] :
                    d \in { <<>> } \cup { <<x>> : x \in FetchDomains } }
    /\ successfulResults = <<>>
    /\ selected = <<>>
    /\ keyIn = <<>>
    /\ keyOut = <<>>
    /\ statsKV = <<>>
    /\ rlNow = 0
    /\ rlLog = <<>>
    /\ rlCalls = <<>>
    /\ endpoint = <<>>
    /\ magicLinks = <<>>
    /\ verifyCalls = <<>>
    /\ logoHeaders = <<>>
    /\ resolveStage = "idle"
    /\ searchResponse = <<>>
    /\ foundDomain = <<>>
    /\ kv = <<>>
    /\ r2 = <<>>
    /\ fetchNow = 0
    /\ reqs = <<>>
    /\ nFaults = 0

SpecPass == InitPass /\ [][NextPass]_vars

\* the loop of a pass is over with two candidates; format is what the call asked for
InitRankPair ==
    /\ pass \in { [domain |-> <<d>>, format |-> f, stage |-> "rank"] :
                    d \in FetchDomains, f \in { str_png, str_svg } }
    /\ successfulResults \in { l \in PairLists :
                                 ProviderIndex(l[1].provider) < ProviderIndex(l[2].provider) }
    /\ selected = <<>>
    /\ keyIn = <<>>
    /\ keyOut = <<>>
    /\ statsKV = <<>>
    /\ rlNow = 0
    /\ rlLog = <<>>
    /\ rlCalls = <<>>
    /\ endpoint = <<>>
    /\ magicLinks = <<>>
    /\ verifyCalls = <<>>
    /\ logoHeaders = <<>>
    /\ resolveStage = "idle"
    /\ searchResponse = <<>>
    /\ foundDomain = <<>>
    /\ kv = <<>>
    /\ r2 = <<>>
    /\ fetchNow = 0
    /\ reqs = <<>>
    /\ nFaults = 0

SpecRankPair == InitRankPair /\ [][NextRankPair]_vars

\* empty STATS namespace, clock at 0, no call made; the other components are not running
InitRate ==
    /\ statsKV = << >>
    /\ rlNow = 0
    /\ rlLog = << >>
    /\ rlCalls = <<>>
    /\ endpoint = <<>>
    /\ magicLinks = <<>>
    /\ verifyCalls = <<>>
    /\ logoHeaders = <<>>
    /\ keyIn = <<>>
    /\ keyOut = <<>>
    /\ successfulResults = <<>>
    /\ selected = <<>>
    /\ pass = <<>>
    /\ resolveStage = "idle"
    /\ searchResponse = <<>>
    /\ foundDomain = <<>>
    /\ kv = <<>>
    /\ r2 = <<>>
    /\ fetchNow = 0
    /\ reqs = <<>>
    /\ nFaults = 0

SpecRate == InitRate /\ [][NextRate]_vars

SpecRateWindow == InitRate /\ [][NextRateWindow]_vars

\* empty STATS namespace, clock at 0, no call in flight; the other components are not running
InitRateConc ==
    /\ statsKV = << >>
    /\ rlNow = 0
    /\ rlLog = << >>
    /\ rlCalls = [c \in RLProcs |-> IdleCall]
    /\ endpoint = <<>>
    /\ magicLinks = <<>>
    /\ verifyCalls = <<>>
    /\ logoHeaders = <<>>
    /\ keyIn = <<>>
    /\ keyOut = <<>>
    /\ successfulResults = <<>>
    /\ selected = <<>>
    /\ pass = <<>>
    /\ resolveStage = "idle"
    /\ searchResponse = <<>>
    /\ foundDomain = <<>>
    /\ kv = <<>>
    /\ r2 = <<>>
    /\ fetchNow = 0
    /\ reqs = <<>>
    /\ nFaults = 0

SpecRateConc == InitRateConc /\ [][NextRateConc]_vars

\* no request handled yet, empty STATS namespace, clock at 0
InitEndpoint ==
    /\ endpoint = <<>>
    /\ magicLinks = <<>>
    /\ verifyCalls = <<>>
    /\ logoHeaders = <<>>
    /\ statsKV = << >>
    /\ rlNow = 0
    /\ rlLog = << >>
    /\ rlCalls = <<>>
    /\ keyIn = <<>>
    /\ keyOut = <<>>
    /\ successfulResults = <<>>
    /\ selected = <<>>
    /\ pass = <<>>
    /\ resolveStage = "idle"
    /\ searchResponse = <<>>
    /\ foundDomain = <<>>
    /\ kv = <<>>
    /\ r2 = <<>>
    /\ fetchNow = 0
    /\ reqs = <<>>
    /\ nFaults = 0

SpecEndpoint == InitEndpoint /\ [][NextEndpoint]_vars

\* two responses whose headers are not built yet
InitHeaders ==
    /\ logoHeaders \in { [metadata |-> <<m1, m2>>, headers |-> <<>>] :
                            m1 \in HeaderMetadata, m2 \in HeaderMetadata }
    /\ endpoint = <<>>
    /\ magicLinks = <<>>
    /\ verifyCalls = <<>>
    /\ statsKV = << >>
    /\ rlNow = 0
    /\ rlLog = << >>
    /\ rlCalls = <<>>
    /\ keyIn = <<>>
    /\ keyOut = <<>>
    /\ successfulResults = <<>>
    /\ selected = <<>>
    /\ pass = <<>>
    /\ resolveStage = "idle"
    /\ searchResponse = <<>>
    /\ foundDomain = <<>>
    /\ kv = <<>>
    /\ r2 = <<>>
    /\ fetchNow = 0
    /\ reqs = <<>>
    /\ nFaults = 0

SpecHeaders == InitHeaders /\ [][NextHeaders]_vars

\* before the first strategy of either variant of the module; the other components are not running
InitResolve ==
    /\ resolveStage \in { "wikipedia", "duckduckgoApi" }
    /\ searchResponse = [ok |-> FALSE, links |-> <<>>]
    /\ foundDomain = <<>>
    /\ keyIn = <<>>
    /\ keyOut = <<>>
    /\ successfulResults = <<>>
    /\ selected = <<>>
    /\ pass = <<>>
    /\ statsKV = <<>>
    /\ rlNow = 0
    /\ rlLog = <<>>
    /\ rlCalls = <<>>
    /\ endpoint = <<>>
    /\ magicLinks = <<>>
    /\ verifyCalls = <<>>
    /\ logoHeaders = <<>>
    /\ kv = <<>>
    /\ r2 = <<>>
    /\ fetchNow = 0
    /\ reqs = <<>>
    /\ nFaults = 0

SpecResolve == InitResolve /\ [][NextResolve]_vars

\* empty KV namespace and R2 bucket, no request made; the other components are not running
InitFetch ==
    /\ kv = << >>
    /\ r2 = << >>
    /\ fetchNow = 0
    /\ reqs = [p \in Procs |-> IdleReq]
    /\ nFaults = 0
    /\ keyIn = <<>>
    /\ keyOut = <<>>
    /\ successfulResults = <<>>
    /\ selected = <<>>
    /\ pass = <<>>
    /\ statsKV = <<>>
    /\ rlNow = 0
    /\ rlLog = <<>>
    /\ rlCalls = <<>>
    /\ endpoint = <<>>
    /\ magicLinks = <<>>
    /\ verifyCalls = <<>>
    /\ logoHeaders = <<>>
    /\ resolveStage = "idle"
    /\ searchResponse = <<>>
    /\ foundDomain = <<>>

SpecFetch == InitFetch /\ [][NextFetch]_vars

SpecFetchConc == InitFetch /\ [][NextFetchConc]_vars

\* every external call of a request in flight returns or fails: the step that
\* waits for it is eventually taken
SpecFetchLive == InitFetch /\ [][NextFetch]_vars /\ \A p \in Procs : WF_vars(RequestStep(p))

\* C8: the three key functions return the same key for two spellings of a
\* domain that differ only in letter case, protocol prefix or leading "www.".
C8_SameKeyForEverySpelling ==
    keyOut # <<>> => keyOut[1] = keyOut[2]


\* C1: the selection is the same for every ordering of the candidate list.
C1_SelectionInvariantUnderPermutation ==
    selected # <<>> =>
        \A perm \in Orderings(successfulResults) : selectBest(perm) = selected[1]

\* two distinct candidates of the list that the comparator does not separate
HasTie(results) ==
    \E i, j \in 1..Len(results) : i # j /\ compareResults(results[i], results[j]) = 0

\* C1 (amended): when no two candidates of the list compare equal, the
\* selection is the same for every ordering of the list.
C1_SelectionInvariantWithoutTies ==
    (selected # <<>> /\ ~HasTie(successfulResults)) =>
        \A perm \in Orderings(successfulResults) : selectBest(perm) = selected[1]

\* the ranking moved a later candidate in front of all earlier ones, no ties
C1_Witness ==
    /\ selected # <<>>
    /\ Len(successfulResults) = MaxSuccesses
    /\ ~HasTie(successfulResults)
    /\ selected[1] = successfulResults[Len(successfulResults)]

\* C10: the selected candidate is of the highest provider tier present in
\* the list, whatever the formats, byte sizes and latencies.
C10_HigherTierWins ==
    selected # <<>> =>
        \A i \in 1..Len(successfulResults) :
            getProviderPriority(successfulResults[i]) <= getProviderPriority(selected[1])

\* the selected candidate beat a lower-tier one that has a better format,
\* more bytes and a lower latency
C10_Witness ==
    /\ selected # <<>>
    /\ \E i \in 1..Len(successfulResults) :
          LET c == successfulResults[i] IN
          /\ getProviderPriority(c) < getProviderPriority(selected[1])
          /\ formatPriority(getFormat(c)) > formatPriority(getFormat(selected[1]))
          /\ selected[1].fileSize # 0 /\ c.fileSize > selected[1].fileSize
          /\ c.duration # 0 /\ c.duration < selected[1].duration


\* the calls logged for one client key in one window, in call order
CallsOf(apiKey, windowStart) ==
    SelectSeq(rlLog, LAMBDA c : c.apiKey = apiKey /\ c.windowStart = windowStart)

\* C4: while the store does not fail, the first RLQuota calls for a key in
\* one window are allowed with remaining RLQuota-1, ..., 0 in that order, and
\* every further call in that window is rejected.
C4_QuotaSequence ==
    \A apiKey \in ApiKeys, windowStart \in 0..MaxRLTime :
        LET calls == CallsOf(apiKey, windowStart) IN
        (\A i \in 1..Len(calls) : calls[i].fault = "none") =>
            \A i \in 1..Len(calls) :
                IF i <= RLQuota
                THEN calls[i].allowed /\ calls[i].remaining = << RLQuota - i >>
                ELSE ~calls[i].allowed

\* in a window after the first, a key used its whole quota and was then
\* rejected in that window
C4_Witness ==
    \E apiKey \in ApiKeys, windowStart \in 1..MaxRLTime :
        LET calls == CallsOf(apiKey, windowStart) IN
        /\ Len(calls) = RLQuota + 1
        /\ \A i \in 1..Len(calls) : calls[i].fault = "none"
        /\ ~calls[RLQuota + 1].allowed


\* C6: the resolver returns none or a domain without a disallow-list substring.
C6_NeverReturnsDisallowedDomain ==
    (resolveStage = "done" /\ foundDomain # <<>>) => ~shouldFilterDomain(foundDomain[1])

\* the age, at the arrival of request q, of the metadata request p built
AgeAt(p, q) == reqs[q].startedAt - dateGetTime(reqs[p].newMetadata[1].retrievedAt)

\* request q is the request after p, both are over, and q asked for the same
\* domain or name, format and size without meeting a store fault
FollowsSame(p, q) ==
    /\ q = p + 1
    /\ reqs[p].pc = "done" /\ reqs[q].pc = "done"
    /\ reqs[q].options = reqs[p].options
    /\ ~reqs[q].faulted

\* C2: after a store that succeeded in both tiers, the next lookup for the
\* same domain or name, format and size, at an age below maxAge, is a hit
\* with the stored bytes and the stored metadata.
C2_StoreThenLookupRoundTrip ==
    \A p, q \in Procs :
        (/\ FollowsSame(p, q)
         /\ reqs[p].stored /\ reqs[p].kvStored
         /\ AgeAt(p, q) < MaxCacheAge)
        => (/\ reqs[q].response[1].fromCache
            /\ reqs[q].response[1].logo = reqs[p].result[1].logoData
            /\ reqs[q].response[1].metadata = reqs[p].newMetadata)

\* a sized entry stored by one request in both tiers was served to the next
C2_Witness ==
    \E p, q \in Procs :
        /\ FollowsSame(p, q)
        /\ reqs[p].stored /\ reqs[p].kvStored
        /\ AgeAt(p, q) < MaxCacheAge
        /\ reqs[p].options.size # 0
        /\ reqs[q].response[1].fromCache

\* C3: when the lookup met stale metadata and has finished (the provider fetch
\* is next), the fast-tier metadata, the sidecar metadata and the blob under
\* the request's keys are gone.
C3_StaleEntryGoneAfterLookup ==
    \A p \in Procs :
        (reqs[p].pc = "providers" /\ reqs[p].staleSeen /\ ~reqs[p].faulted)
        => (/\ kvLookupKey(reqs[p].options) \notin DOMAIN kv
            /\ metadataLookupKey(reqs[p].options) \notin DOMAIN r2
            /\ logoLookupKey(reqs[p].options) \notin DOMAIN r2)

\* C5: when a name-only request succeeds through the resolved domain, the
\* stored and returned metadata records that domain and the keys written in
\* both tiers are derived from it.
C5_MetadataRecordsResolvedDomain ==
    \A p \in Procs :
        (/\ reqs[p].pc = "done"
         /\ reqs[p].options.domain = <<>>
         /\ reqs[p].foundDomain # <<>>
         /\ reqs[p].stored /\ reqs[p].kvStored)
        => LET found == reqs[p].foundDomain[1]
               o == reqs[p].options
           IN /\ reqs[p].response[1].metadata[1].domain = found
              /\ generateLogoKey(found, <<>>, o.format, o.size) \in DOMAIN r2
              /\ generateMetadataKey(found, <<>>) \in DOMAIN r2
              /\ generateKVMetadataKey(found, <<>>, o.format, o.size) \in DOMAIN kv

\* C7: after a domain request on an empty cache ended with bytes stored, a
\* second request for the same domain, format and size within maxAge returns
\* those bytes from the cache without a provider call.
C7_SecondRequestServedFromCache ==
    \A p, q \in Procs :
        (/\ FollowsSame(p, q)
         /\ reqs[p].options.domain # <<>>
         /\ reqs[p].startEmpty
         /\ reqs[p].blobStored
         /\ AgeAt(p, q) <= MaxCacheAge)
        => (/\ reqs[q].response[1].fromCache
            /\ reqs[q].response[1].logo = reqs[p].result[1].logoData
            /\ reqs[q].providerCalls = 0)

\* the second request came when the entry was exactly maxAge old
C7_Witness ==
    \E p, q \in Procs :
        /\ FollowsSame(p, q)
        /\ reqs[p].options.domain # <<>>
        /\ reqs[p].startEmpty
        /\ reqs[p].blobStored
        /\ AgeAt(p, q) = MaxCacheAge
        /\ reqs[q].response[1].fromCache
        /\ reqs[q].providerCalls = 0

\* C9: per request the resolver runs at most once, only after a first pass
\* without success on a name-only request; the provider list runs at most
\* twice, the second time only after the resolver returned a domain.
C9_OneResolveOneRetry ==
    \A p \in Procs :
        LET r == reqs[p] IN
        /\ r.resolverCalls <= 1
        /\ r.passes <= 2
        /\ r.resolverCalls = 1 =>
              (/\ r.passes >= 1 /\ r.firstPassFailed
               /\ r.options.domain = <<>> /\ r.options.companyName # <<>>)
        /\ r.passes = 2 => (r.resolverCalls = 1 /\ r.foundDomain # <<>>)

\* a name-only request was retried on the resolved domain and succeeded, and a
\* domain request failed every provider without the resolver being called
C9_Witness ==
    \E p, q \in Procs :
        /\ reqs[p].pc = "done" /\ reqs[p].passes = 2 /\ reqs[p].resolverCalls = 1
        /\ reqs[p].response[1].success
        /\ reqs[q].pc = "done" /\ reqs[q].options.domain # <<>>
        /\ ~reqs[q].response[1].success /\ reqs[q].resolverCalls = 0

\* C11: when the lookup holds fresh metadata and the durable tier has no blob
\* under the request's key, the step after the blob read goes on to the
\* provider fetch and no response (so no error) has been returned.
C11_FreshMetadataMissingBlobIsMiss ==
    [][\A p \in Procs :
         (/\ reqs[p].pc = "cachedLogo"
          /\ reqs[p].metadata # <<>>
          /\ logoLookupKey(reqs[p].options) \notin DOMAIN r2
          /\ reqs'[p].pc # "cachedLogo")
         => (reqs'[p].pc = "providers" /\ reqs'[p].response = <<>>)]_vars

\* a request found fresh metadata, found no blob without any store operation
\* throwing, made a provider pass and answered from the providers
C11_Witness ==
    \E p \in Procs :
        /\ reqs[p].pc = "done"
        /\ reqs[p].metadata # <<>> /\ ~reqs[p].staleSeen /\ ~reqs[p].faulted
        /\ reqs[p].providerCalls > 0
        /\ reqs[p].response[1].success /\ ~reqs[p].response[1].fromCache

\* C12: when the blob write of a store throws, the store reports failure (the
\* request answers with the URL only, stored stays false) and the step writes
\* nothing: the fast tier and the durable tier, sidecar metadata included, stay
\* as they were, and the request is over, so no later step of it writes either.
C12_BlobWriteFailureWritesNoMetadata ==
    [][\A p \in Procs :
         (/\ reqs[p].pc = "storeLogo"
          /\ reqs'[p].pc # "storeLogo"
          /\ ~reqs'[p].blobStored)
         => (/\ reqs'[p].pc = "done"
             /\ ~reqs'[p].stored /\ ~reqs'[p].kvStored
             /\ reqs'[p].response = << urlOnlyResponse(reqs[p].result[1]) >>
             /\ kv' = kv /\ r2' = r2)]_vars

\* a request reached the store with bytes, the blob write threw, and it ended
\* with the URL alone while neither tier holds metadata under its keys
C12_Witness ==
    \E p \in Procs :
        /\ reqs[p].pc = "done"
        /\ reqs[p].newMetadata # <<>>
        /\ ~reqs[p].blobStored /\ reqs[p].faulted
        /\ reqs[p].response[1].success /\ reqs[p].response[1].logo = <<>>
        /\ metadataStoreKey(reqs[p].newMetadata[1]) \notin DOMAIN r2
        /\ kvStoreKey(reqs[p].newMetadata[1]) \notin DOMAIN kv

\* C13: when the fast-tier metadata write of a store throws, the store still
\* succeeds (the request answers with the bytes and the metadata); the next
\* lookup for the same key within maxAge, the fast tier holding no record for
\* it, is a hit with those bytes whose metadata was read from the durable
\* sidecar.
C13_FastTierWriteFailureStillHits ==
    \A p, q \in Procs :
        (/\ FollowsSame(p, q)
         /\ reqs[p].stored /\ ~reqs[p].kvStored
         /\ kvLookupKey(reqs[q].options) \notin DOMAIN kv
         /\ AgeAt(p, q) <= MaxCacheAge)
        => (/\ reqs[p].response = << storedResponse(reqs[p].result[1], reqs[p].newMetadata[1]) >>
            /\ reqs[q].response[1].fromCache
            /\ reqs[q].response[1].logo = reqs[p].result[1].logoData
            /\ reqs[q].response[1].metadata = reqs[p].newMetadata
            /\ reqs[q].metadataFrom = "r2"
            /\ reqs[q].providerCalls = 0)

\* the fast-tier write of a sized entry threw and the next request for it was
\* served from the cache
C13_Witness ==
    \E p, q \in Procs :
        /\ FollowsSame(p, q)
        /\ reqs[p].stored /\ ~reqs[p].kvStored /\ reqs[p].faulted
        /\ reqs[p].options.size # 0
        /\ kvLookupKey(reqs[q].options) \notin DOMAIN kv
        /\ reqs[q].response[1].fromCache
        /\ reqs[q].metadataFrom = "r2"

\* the concurrent calls for one client key in one window that met no store
\* fault and returned allowed = true
AllowedCalls(apiKey, windowStart) ==
    { c \in RLProcs : /\ rlCalls[c].pc = "done"
                      /\ rlCalls[c].apiKey = apiKey /\ rlCalls[c].windowStart = windowStart
                      /\ rlCalls[c].fault = "none" /\ rlCalls[c].allowed }

C15_StoreFailureAllows ==
    \A i \in 1..Len(rlLog) : rlLog[i].fault # "none" => rlLog[i].allowed

\* after a counted call for a key, the read threw in one call for that key in
\* the same window and the write threw in another call: both were allowed
C15_Witness ==
    \E i, j \in 1..Len(rlLog) :
        /\ rlLog[i].fault = "get" /\ rlLog[i].allowed
        /\ rlLog[j].fault = "put" /\ rlLog[j].allowed
        /\ \E k \in 1..(i - 1) :
              /\ rlLog[k].apiKey = rlLog[i].apiKey /\ rlLog[k].windowStart = rlLog[i].windowStart
              /\ rlLog[k].fault = "none" /\ rlLog[k].allowed

\* the count the store holds for the key and window of the call just logged,
\* as it was before the call
StoredCountBefore ==
    LET call == rlLog'[Len(rlLog')]
        currentCount == kvGet(statsKV, rateLimitKeyOf(call.apiKey, call.windowStart), rlNow)
    IN IF currentCount = <<>> THEN 0 ELSE parseInt(currentCount[1])

\* C16: a call that reads a stored count of at least RLQuota for its key and
\* window returns allowed = false, remaining = 0 and resetAt = windowStart +
\* windowLength, and leaves the counter store as it was.
C16_RejectWritesNothing ==
    [][(/\ Len(rlLog') = Len(rlLog) + 1
        /\ rlLog'[Len(rlLog')].fault # "get"
        /\ StoredCountBefore >= RLQuota)
       => (/\ ~rlLog'[Len(rlLog')].allowed
           /\ rlLog'[Len(rlLog')].remaining = <<0>>
           /\ rlLog'[Len(rlLog')].resetAt = << rlLog'[Len(rlLog')].windowStart + RLWindow >>
           /\ statsKV' = statsKV)]_vars

\* a call was rejected in a window after the first while the store holds
\* exactly RLQuota for its key and window
C16_Witness ==
    \E i \in 1..Len(rlLog) :
        /\ ~rlLog[i].allowed
        /\ rlLog[i].windowStart > 0
        /\ rlLog[i].resetAt = << rlLog[i].windowStart + RLWindow >>
        /\ rateLimitKeyOf(rlLog[i].apiKey, rlLog[i].windowStart) \in DOMAIN statsKV
        /\ statsKV[rateLimitKeyOf(rlLog[i].apiKey, rlLog[i].windowStart)].value = numToString(RLQuota)

\* C17: requests in flight together are not deduplicated (the witness: two
\* requests for one uncached key both miss, both run the provider pass and
\* both store), and every write of a store that does not throw replaces
\* whatever another request wrote under the key: after the step the blob key,
\* the sidecar key and the fast-tier key hold the writer's own value.
C17_LaterWriteOverwrites ==
    [][\A p \in Procs :
         LET r == reqs[p] IN
         /\ (r.pc = "storeLogo" /\ reqs'[p].blobStored)
              => storeGet(r2', logoStoreKey(r.newMetadata[1])) = r.result[1].logoData
         /\ (r.pc = "storeMetadata" /\ reqs'[p].stored)
              => storeGet(r2', metadataStoreKey(r.newMetadata[1]))
                   = << stringifyMetadata(r.newMetadata[1]) >>
         /\ (r.pc = "storeKV" /\ reqs'[p].kvStored)
              => storeGet(kv', kvStoreKey(r.newMetadata[1]))
                   = << stringifyMetadata(r.newMetadata[1]) >>]_vars

\* two requests for the same key both arrived on an empty cache, both ran the
\* provider pass and both stored, with different bytes; one of the two blobs
\* is what the key holds
C17_Witness ==
    \E p, q \in Procs :
        /\ p # q
        /\ reqs[p].pc = "done" /\ reqs[q].pc = "done"
        /\ reqs[p].options = reqs[q].options
        /\ reqs[p].startEmpty /\ reqs[q].startEmpty
        /\ reqs[p].providerCalls > 0 /\ reqs[q].providerCalls > 0
        /\ reqs[p].stored /\ reqs[q].stored
        /\ reqs[p].result[1].logoData # reqs[q].result[1].logoData
        /\ storeGet(r2, logoLookupKey(reqs[p].options)) = reqs[q].result[1].logoData

\* C18: whatever fails (store operations throwing, every provider failing,
\* the search finding nothing), a request that is over has returned exactly
\* one result object; the result carries the success flag, and carries an
\* error description whenever success is false.  A request that is not over
\* has returned nothing.
C18_AlwaysReturnsResult ==
    \A p \in Procs :
        IF reqs[p].pc = "done"
        THEN /\ Len(reqs[p].response) = 1
             /\ reqs[p].response[1].success \in BOOLEAN
             /\ (~reqs[p].response[1].success => reqs[p].response[1].error)
             /\ (reqs[p].response[1].success =>
                    (reqs[p].response[1].logo # <<>> \/ reqs[p].response[1].logoUrl # <<>>))
        ELSE reqs[p].response = <<>>

\* a name-only request met a throwing store operation, every provider failed
\* and the search found no domain: it returned success = false with an error
C18_Witness ==
    \E p \in Procs :
        /\ reqs[p].pc = "done"
        /\ reqs[p].options.companyName # <<>>
        /\ reqs[p].faulted
        /\ reqs[p].resolverCalls = 1 /\ reqs[p].foundDomain = <<>>
        /\ ~reqs[p].response[1].success /\ reqs[p].response[1].error

\* the order of the awaits and returns of fetchLogo
pcRank ==
    [ idle |-> 0, kvMeta |-> 1, r2Meta |-> 2, cachedLogo |-> 3, invalidateLogo |-> 3,
      invalidateMetadata |-> 4, invalidateKV |-> 5, providers |-> 6, resolve |-> 7,
      retry |-> 8, storeLogo |-> 9, storeMetadata |-> 10, storeKV |-> 11, done |-> 12 ]

\* C19: every request whose external calls all return or fail ends: it
\* reaches the terminal position with one response, a success with bytes or
\* a URL or a failure (not found); every step of a request moves it forward
\* in the order of the code, and a finished request does not change again.
C19_EveryRequestEndsOnce ==
    /\ \A p \in Procs : (reqs[p].pc # "idle") ~> (reqs[p].pc = "done")
    /\ [][\A p \in Procs :
            /\ reqs'[p] # reqs[p] => pcRank[reqs'[p].pc] > pcRank[reqs[p].pc]
            /\ reqs[p].pc = "done" => reqs'[p] = reqs[p]
            /\ reqs'[p].pc = "done" =>
                  /\ Len(reqs'[p].response) = 1
                  /\ IF reqs'[p].response[1].success
                     THEN reqs'[p].response[1].logo # <<>> \/ reqs'[p].response[1].logoUrl # <<>>
                     ELSE reqs'[p].response[1] = failureResponse]_vars

\* both outcomes were reached: one request ended not found after the search
\* and the retried pass, another ended with bytes
C19_Witness ==
    \E p, q \in Procs :
        /\ reqs[p].pc = "done" /\ reqs[q].pc = "done"
        /\ ~reqs[p].response[1].success /\ reqs[p].passes = 2
        /\ reqs[q].response[1].success /\ reqs[q].response[1].logo # <<>>

C21_RejectedRequestTouchesNoCache ==
    /\ \A i \in DOMAIN endpoint :
          LET h == endpoint[i] IN
          /\ (h.rateLimit # <<>> /\ ~h.rateLimit[1].allowed) =>
                /\ h.stage \in {"validated", "responded"}
                /\ h.stage = "responded" => h.response[1].status = 429
          /\ h.stage = "fetchLogo" => (h.rateLimit # <<>> /\ h.rateLimit[1].allowed)
    /\ kv = <<>> /\ r2 = <<>> /\ reqs = <<>>

\* a request rejected after RLQuota allowed ones of the same key has its response
C21_Witness ==
    \E i \in DOMAIN endpoint :
        /\ endpoint[i].rateLimit # <<>>
        /\ ~endpoint[i].rateLimit[1].allowed
        /\ endpoint[i].stage = "responded"
        /\ \E j \in 1..(i - 1) :
              /\ endpoint[j].rateLimit # <<>>
              /\ endpoint[j].rateLimit[1].allowed
              /\ endpoint[j].validation.apiKey = endpoint[i].validation.apiKey

\* C22: every 429 response carries the Retry-After and X-RateLimit-Reset
\* headers, and the rate-limited outcome handed to the handler carries resetAt.
C22_RateLimitResponseCarriesReset ==
    \A i \in DOMAIN endpoint :
        LET h == endpoint[i] IN
        /\ h.validation.rateLimited = <<TRUE>> => "resetAt" \in DOMAIN h.validation
        /\ (h.stage = "responded" /\ h.response[1].status = 429) =>
              {"Retry-After", "X-RateLimit-Reset"} \subseteq DOMAIN h.response[1].headers

\* what a put of value under key makes of a tier: the key holds the value,
\* every other key is as it was, and nothing changes when the key held the
\* value already
PutEffect(before, after, key, value) ==
    /\ DOMAIN after = DOMAIN before \cup {key}
    /\ after[key] = value
    /\ \A k \in DOMAIN before \ {key} : after[k] = before[k]
    /\ storeGet(before, key) = <<value>> => after = before

\* C23: each write of a store that does not throw leaves its own value under
\* its key and every other key as it was, whatever the key held (overwrite);
\* so when the key already holds the value written, the tier is unchanged: a
\* store repeated with the same key, bytes and metadata leaves both tiers as
\* the first one left them.
C23_RepeatedStoreIsIdempotent ==
    [][\A p \in Procs :
         LET r == reqs[p] IN
         /\ (r.pc = "storeLogo" /\ reqs'[p].blobStored) =>
               PutEffect(r2, r2', logoStoreKey(r.newMetadata[1]), r.result[1].logoData[1])
         /\ (r.pc = "storeMetadata" /\ reqs'[p].stored) =>
               PutEffect(r2, r2', metadataStoreKey(r.newMetadata[1]),
                         stringifyMetadata(r.newMetadata[1]))
         /\ (r.pc = "storeKV" /\ reqs'[p].kvStored) =>
               PutEffect(kv, kv', kvStoreKey(r.newMetadata[1]),
                         stringifyMetadata(r.newMetadata[1]))]_vars

\* two requests stored the same bytes and the same metadata under the same
\* keys, one after the other, and the tiers hold exactly that entry
C23_Witness ==
    \E p, q \in Procs :
        /\ p # q
        /\ reqs[p].pc = "done" /\ reqs[q].pc = "done"
        /\ reqs[p].stored /\ reqs[p].kvStored /\ reqs[q].stored /\ reqs[q].kvStored
        /\ reqs[p].newMetadata = reqs[q].newMetadata
        /\ reqs[p].result[1].logoData = reqs[q].result[1].logoData
        /\ DOMAIN r2 = { logoStoreKey(reqs[p].newMetadata[1]), metadataStoreKey(reqs[p].newMetadata[1]) }
        /\ DOMAIN kv = { kvStoreKey(reqs[p].newMetadata[1]) }

\* C24: the headers built for a response have no X-Logo-Provider header and no
\* header whose value is the provider name; they carry the retrieval timestamp
\* of the metadata whenever the response has metadata; and two responses whose
\* metadata differ in nothing but the provider get identical headers.
C24_HeadersHideProvider ==
    logoHeaders # <<>> /\ logoHeaders.headers # <<>> =>
        /\ \A i \in 1..2 :
              LET metadata == logoHeaders.metadata[i]
                  headers  == logoHeaders.headers[i]
              IN metadata # <<>> =>
                    /\ "X-Logo-Provider" \notin DOMAIN headers
                    /\ \A h \in DOMAIN headers : headers[h] # << metadata[1].provider >>
                    /\ "X-Logo-Retrieved-At" \in DOMAIN headers
                    /\ headers["X-Logo-Retrieved-At"] = metadata[1].retrievedAt
        /\ ( /\ logoHeaders.metadata[1] # <<>>
             /\ logoHeaders.metadata[2] # <<>>
             /\ [logoHeaders.metadata[1][1] EXCEPT !.provider = "any"]
                   = [logoHeaders.metadata[2][1] EXCEPT !.provider = "any"] )
              => logoHeaders.headers[1] = logoHeaders.headers[2]

\* the headers of two responses that differ in the provider alone are built
C24_Witness ==
    /\ logoHeaders # <<>>
    /\ logoHeaders.headers # <<>>
    /\ logoHeaders.metadata[1] # <<>>
    /\ logoHeaders.metadata[2] # <<>>
    /\ logoHeaders.metadata[1][1].provider # logoHeaders.metadata[2][1].provider
    /\ [logoHeaders.metadata[1][1] EXCEPT !.provider = "any"]
          = [logoHeaders.metadata[2][1] EXCEPT !.provider = "any"]

\* C25: every provider that reported success with a URL has its attempt among
\* the candidates, with the provider's URL, also when the follow-up fetch of
\* the bytes failed (the candidate then has no bytes and no size); and the
\* result of the pass is the best of all candidates, those without bytes
\* included.
C25_SuccessWithoutBytesIsCandidate ==
    pass # <<>> =>
        /\ \A k \in DOMAIN pass.attempted :
              pass.attempted[k].success =>
                 \E j \in DOMAIN successfulResults :
                    /\ successfulResults[j].provider = pass.attempted[k].provider
                    /\ successfulResults[j].logoUrl = ProviderLogoUrl(k)
                    /\ successfulResults[j].logoData = <<>> => successfulResults[j].fileSize = 0
        /\ (pass.stage = "done" /\ successfulResults # <<>>) =>
              /\ selected = << selectBest(successfulResults) >>
              /\ \A j \in DOMAIN successfulResults :
                    compareResults(selected[1], successfulResults[j]) <= 0

\* a pass is over in which a provider's bytes could not be fetched, and its
\* candidate without bytes was selected over a candidate that has bytes
C25_Witness ==
    /\ pass # <<>>
    /\ pass.stage = "done"
    /\ selected # <<>>
    /\ selected[1].success
    /\ selected[1].logoData = <<>>
    /\ \E j \in DOMAIN successfulResults : successfulResults[j].logoData # <<>>

\* C26: a request whose provider result is a success with a URL and without
\* bytes is over with that result: it never enters the store; the step that
\* ends it changes neither tier, and its response is success = true with the
\* source URL, no bytes and no metadata.
C26_UrlOnlyResultWritesNothing ==
    /\ [](\A p \in Procs :
            (reqs[p].result # <<>> /\ reqs[p].result[1].success
                /\ reqs[p].result[1].logoUrl # <<>> /\ reqs[p].result[1].logoData = <<>>)
              => /\ reqs[p].pc = "done"
                 /\ ~reqs[p].blobStored /\ ~reqs[p].stored /\ ~reqs[p].kvStored)
    /\ [][\A p \in Procs :
            (reqs[p].pc # "done" /\ reqs'[p].pc = "done" /\ reqs'[p].result # <<>>
                /\ reqs'[p].result[1].success /\ reqs'[p].result[1].logoUrl # <<>>
                /\ reqs'[p].result[1].logoData = <<>>)
              => /\ kv' = kv
                 /\ r2' = r2
                 /\ reqs'[p].response[1].success
                 /\ reqs'[p].response[1].logoUrl = << reqs'[p].result[1].logoUrl >>
                 /\ reqs'[p].response[1].logo = <<>>
                 /\ reqs'[p].response[1].metadata = <<>>
                 /\ ~reqs'[p].response[1].fromCache]_vars

\* a request ended with the URL of a candidate without bytes while the tiers
\* hold the entry an earlier request stored
C26_Witness ==
    \E p \in Procs :
        /\ reqs[p].pc = "done"
        /\ reqs[p].result # <<>>
        /\ reqs[p].result[1].success
        /\ reqs[p].result[1].logoData = <<>>
        /\ reqs[p].response[1].success
        /\ reqs[p].response[1].logoUrl # <<>>
        /\ DOMAIN r2 # {}

\* the class of a source URL: 2 for a vector image, 1 for a raster image, 0
\* for a URL that names no known format
UrlClass(url) ==
    IF url = url_svg THEN 2 ELSE IF url \in { url_png, url_jpg } THEN 1 ELSE 0

C28_LargerThenFasterSelected ==
    (pass # <<>> /\ pass.stage = "done" /\ Len(successfulResults) = 2) =>
        \A i, j \in 1..2 :
            LET a == successfulResults[i]
                b == successfulResults[j]
            IN
            ( /\ getProviderPriority(a) = getProviderPriority(b)
              /\ formatPriority(getFormat(a)) = formatPriority(getFormat(b)) )
              => /\ (a.logoData # <<>> /\ b.logoData # <<>> /\ a.fileSize > b.fileSize)
                       => selected = <<a>>
                 /\ ((a.fileSize = 0 \/ b.fileSize = 0) /\ a.duration < b.duration)
                       => selected = <<a>>

\* the calls logged so far for a key in the window that starts at windowStart
CallsInWindow(log, apiKey, windowStart) ==
    { j \in DOMAIN log : log[j].apiKey = apiKey /\ log[j].windowStart = windowStart }

\* C29: a call made at time now is counted in the window that starts at
\* floor(now / RLWindow) * RLWindow and reports that window's end as resetAt;
\* its answer depends on the calls of the same key in the same window only:
\* it is allowed exactly when fewer than RLQuota of them came before, with
\* remaining = RLQuota minus their number minus one, whatever was counted in
\* earlier windows.  So the first call of a key in a window is allowed with
\* remaining = RLQuota - 1, also when the key was rejected in an earlier window.
C29_WindowsAreIndependent ==
    [][Len(rlLog') = Len(rlLog) + 1 =>
         LET call   == rlLog'[Len(rlLog')]
             before == CallsInWindow(rlLog, call.apiKey, call.windowStart)
         IN
         /\ call.windowStart = (rlNow \div RLWindow) * RLWindow
         /\ call.windowStart <= rlNow
         /\ rlNow < call.windowStart + RLWindow
         /\ call.resetAt = << call.windowStart + RLWindow >>
         /\ call.allowed <=> Cardinality(before) < RLQuota
         /\ call.allowed => call.remaining = << RLQuota - Cardinality(before) - 1 >>
         /\ (\E j \in DOMAIN rlLog :
                /\ rlLog[j].apiKey = call.apiKey
                /\ ~rlLog[j].allowed
                /\ rlNow >= rlLog[j].resetAt[1]
                /\ before = {})
              => (call.allowed /\ call.remaining = << RLQuota - 1 >>)]_vars

\* a key used up its quota in one window, was rejected there, and its first
\* call at or after the end of that window was allowed with a full quota
C29_Witness ==
    \E j, k \in DOMAIN rlLog :
        /\ j < k
        /\ rlLog[j].apiKey = rlLog[k].apiKey
        /\ ~rlLog[j].allowed
        /\ rlLog[k].windowStart = rlLog[j].resetAt[1]
        /\ rlLog[k].allowed
        /\ rlLog[k].remaining = << RLQuota - 1 >>

\* C30: the strategies run in their fixed order, and a strategy that yields no
\* domain, by an error as well, is followed by the next one: the search ends
\* with a domain, or with none after the last strategy of its list yielded none
\* (Wikipedia, DuckDuckGo, Google; and Instant Answer, HTML search).
C30_NextStrategyAlwaysTried ==
    [][ /\ (resolveStage = "wikipedia" /\ foundDomain' = <<>>) => resolveStage' = "duckduckgo"
        /\ (resolveStage = "duckduckgo" /\ foundDomain' = <<>>) => resolveStage' = "google"
        /\ (resolveStage = "duckduckgoApi" /\ foundDomain' = <<>>) => resolveStage' = "duckduckgoHtml"
        /\ (resolveStage' = "done" /\ foundDomain' = <<>>)
              => resolveStage \in { "google", "duckduckgoHtml" }
        /\ (resolveStage # "done" /\ foundDomain' # <<>>) => resolveStage' = "done" ]_vars


\* C31: a request that passed key validation and the rate-limit check goes on
\* to the call of fetchLogo: between the gate and the lookup the handler hands
\* out no response, the usage tracking cannot end the request.
C31_AllowedRequestReachesFetch ==
    \A i \in DOMAIN endpoint :
        LET h == endpoint[i] IN
        (h.validation.valid /\ h.validation.rateLimited = <<FALSE>>) =>
            /\ h.stage \in {"validated", "fetchLogo"}
            /\ h.response = <<>>

\* ------------------------------------------------------------------------
\* SpecProviders: the verification request of the providers getlogo.dev and
\* logo.dev inside the failover loop, and what becomes of the response body
\* ------------------------------------------------------------------------
MaxProviderCalls == 3

ct_png  == <<"i","m","a","g","e","/","p","n","g">>
ct_html == <<"t","e","x","t","/","h","t","m","l">>
str_image == <<"i","m","a","g","e","/">>

\* what fetch(fullUrl) can bring: <<>> when it throws, else a response with a
\* status and an optional content-type header
ProviderResponses ==
    {<<>>} \cup { << [status |-> st, contentType |-> ct] >> :
                    st \in {200, 404, 429, 500}, ct \in {<<>>, <<ct_png>>, <<ct_html>>} }

\* response.ok
responseOk(response) == response.status >= 200 /\ response.status <= 299

\* !contentType || !contentType.startsWith('image/')
notAnImage(response) ==
    response.contentType = <<>> \/ response.contentType[1] = <<>>
        \/ ~startsWith(response.contentType[1], str_image)

\* the LogoProviderResult of a verification, common to both providers
verificationResult(provider, response) ==
    IF response = <<>>
    THEN [success |-> FALSE, error |-> <<"thrown">>, provider |-> provider]
    ELSE IF ~responseOk(response[1])
    THEN [success |-> FALSE, provider |-> provider,
          error |-> IF response[1].status = 404 THEN <<"Logo not found">>
                    ELSE IF response[1].status = 429 THEN <<"Rate limit exceeded">>
                    ELSE <<"HTTP", response[1].status>>]
    ELSE IF notAnImage(response[1])
    THEN [success |-> FALSE, error |-> <<"Response is not an image">>, provider |-> provider]
    ELSE [success |-> TRUE, error |-> <<>>, provider |-> provider]

\* fetchLogoFromGetLogo: no path reads or cancels the body of the response
fetchLogoFromGetLogo(response) ==
    [result   |-> verificationResult("getlogo.dev", response),
     response |-> response,
     body     |-> IF response = <<>> THEN "none" ELSE "unread"]

\* fetchLogoFromLogoDev: arrayBuffer() is awaited on the non-image path and on
\* the success path, not on the path of a non-OK status
fetchLogoFromLogoDev(response) ==
    [result   |-> verificationResult("logo.dev", response),
     response |-> response,
     body     |-> IF response = <<>> THEN "none"
                  ELSE IF ~responseOk(response[1]) THEN "unread"
                  ELSE "read"]

\* the loop of fetchLogoWithFailover awaits the providers in turn; a further
\* pass follows when the resolver found a domain
CallGetLogo ==
    /\ Len(verifyCalls) < MaxProviderCalls
    /\ Len(verifyCalls) % 2 = 0
    /\ \E response \in ProviderResponses :
          verifyCalls' = Append(verifyCalls, fetchLogoFromGetLogo(response))
    /\ UNCHANGED notProviderVars

CallLogoDev ==
    /\ Len(verifyCalls) < MaxProviderCalls
    /\ Len(verifyCalls) % 2 = 1
    /\ \E response \in ProviderResponses :
          verifyCalls' = Append(verifyCalls, fetchLogoFromLogoDev(response))
    /\ UNCHANGED notProviderVars

NextProviders == CallGetLogo \/ CallLogoDev

InitProviders ==
    /\ verifyCalls = <<>>
    /\ logoHeaders = <<>>
    /\ endpoint = <<>>
    /\ magicLinks = <<>>
    /\ statsKV = << >>
    /\ rlNow = 0
    /\ rlLog = << >>
    /\ rlCalls = <<>>
    /\ keyIn = <<>>
    /\ keyOut = <<>>
    /\ successfulResults = <<>>
    /\ selected = <<>>
    /\ pass = <<>>
    /\ resolveStage = "idle"
    /\ searchResponse = <<>>
    /\ foundDomain = <<>>
    /\ kv = <<>>
    /\ r2 = <<>>
    /\ fetchNow = 0
    /\ reqs = <<>>
    /\ nFaults = 0

SpecProviders == InitProviders /\ [][NextProviders]_vars

\* a provider call that ended as a soft failure: a response arrived and it had
\* a non-OK status or was not an image
SoftFailure(call) ==
    /\ call.response # <<>>
    /\ ~call.result.success

\* C32: when a provider call ended as a soft failure (HTTP error status or
\* non-image content type) and the next provider has been called, the body of
\* its response has been read or discarded.
C32_SoftFailureBodyDrained ==
    \A i \in 1..(Len(verifyCalls) - 1) :
        SoftFailure(verifyCalls[i]) => verifyCalls[i].body = "read"

\* the steps of invalidateLogoCache
InvalidationStages == { "invalidateLogo", "invalidateMetadata", "invalidateKV" }

\* C33: a delete that fails while a stale entry is invalidated does not fail
\* the request: the step that failed leaves the request without a response and
\* at the provider fetch, and a request that found a stale entry ends with at
\* least one provider pass made, never as a cache hit, and successful exactly
\* when the provider fetch gave a result with a URL.
C33_FailedInvalidationIsAMiss ==
    /\ [][ \A p \in Procs :
             (reqs[p].pc \in InvalidationStages /\ nFaults' = nFaults + 1) =>
                /\ reqs'[p].pc = "providers"
                /\ reqs'[p].response = <<>> ]_vars
    /\ [](\A p \in Procs :
             (reqs[p].staleSeen /\ reqs[p].pc = "done") =>
                /\ reqs[p].passes >= 1
                /\ ~reqs[p].response[1].fromCache
                /\ reqs[p].response[1].success =
                      (reqs[p].result[1].success /\ reqs[p].result[1].logoUrl # <<>>))

\* a request that read stale metadata from the fast tier, had a delete of the
\* invalidation fail, and ended with the logo the providers gave, stored anew
C33_Witness ==
    \E p \in Procs :
        /\ reqs[p].pc = "done"
        /\ reqs[p].staleSeen /\ reqs[p].metadataFrom = "kv"
        /\ reqs[p].faulted
        /\ reqs[p].stored /\ reqs[p].kvStored
        /\ reqs[p].response[1].success /\ reqs[p].response[1].logo # <<>>
        /\ ~reqs[p].response[1].fromCache

\* C34: a request is answered from the cache only when it found a metadata
\* record for its key and that record is not stale: no cached bytes are served
\* for a key without a metadata record.
C34_HitOnlyUnderFreshMetadata ==
    \A p \in Procs :
        (reqs[p].pc = "done" /\ reqs[p].response[1].fromCache) =>
            /\ reqs[p].metadata # <<>>
            /\ ~isMetadataStale(reqs[p].metadata[1], MaxCacheAge, reqs[p].lookupAt)

\* C35: the metadata record a lookup found, on which it decides freshness and
\* which it returns with a hit, describes the blob the request asks for: the
\* blob key derived from the record is the blob key derived from the request,
\* whichever tier the record was read from.
C35_MetadataDescribesRequestedBlob ==
    \A p \in Procs :
        reqs[p].metadata # <<>> =>
            logoStoreKey(reqs[p].metadata[1]) = logoLookupKey(reqs[p].options)

\* what the three keys of a store hold is what request w wrote
TiersHoldStoreOf(w) ==
    LET r == reqs[w] IN
    /\ storeGet(r2, logoStoreKey(r.newMetadata[1])) = r.result[1].logoData
    /\ storeGet(r2, metadataStoreKey(r.newMetadata[1])) = << stringifyMetadata(r.newMetadata[1]) >>
    /\ storeGet(kv, kvStoreKey(r.newMetadata[1])) = << stringifyMetadata(r.newMetadata[1]) >>

\* C36: once two stores to the same key that ran concurrently have both
\* completed, the blob, the sidecar metadata and the fast-tier metadata under
\* the key all come from the same one of the two stores.
C36_ConcurrentStoresLeaveOneStore ==
    \A p, q \in Procs :
        ( /\ p # q
          /\ reqs[p].pc = "done" /\ reqs[q].pc = "done"
          /\ reqs[p].options = reqs[q].options
          /\ reqs[p].stored /\ reqs[p].kvStored
          /\ reqs[q].stored /\ reqs[q].kvStored )
        => (TiersHoldStoreOf(p) \/ TiersHoldStoreOf(q))

\* C37: when the provider fetch gave a candidate with bytes and the store in
\* the durable tier failed, the request still ends with success = true and
\* with the fetched bytes.
C37_StoreFailureStillReturnsBytes ==
    \A p \in Procs :
        ( /\ reqs[p].pc = "done"
          /\ reqs[p].newMetadata # <<>>
          /\ ~reqs[p].stored )
        => /\ reqs[p].response[1].success
           /\ reqs[p].response[1].logo = reqs[p].result[1].logoData

\* the steps of the store: the two puts of storeLogoInR2 and the put of storeMetadataInKV
StoreStages == { "storeLogo", "storeMetadata", "storeKV" }

\* some key of the tier holds a value it did not hold before
SomePut(before, after) == \E k \in DOMAIN after : storeGet(before, k) # << after[k] >>

\* C38: a request that ends with success = false has made no put on either
\* tier: it never entered the store, the step that ends it leaves both tiers
\* as they are, and a put on a tier is made only by a request inside the
\* store, so that all a failed request can have changed is what the deletes of
\* a stale entry removed.
C38_FailedRequestPutsNothing ==
    /\ [](\A p \in Procs :
             /\ reqs[p].pc \in StoreStages => reqs[p].newMetadata # <<>>
             /\ (reqs[p].pc = "done" /\ ~reqs[p].response[1].success) =>
                   /\ reqs[p].newMetadata = <<>>
                   /\ ~reqs[p].blobStored /\ ~reqs[p].stored /\ ~reqs[p].kvStored)
    /\ [][ /\ (SomePut(r2, r2') \/ SomePut(kv, kv')) =>
                \E p \in Procs : reqs[p].pc \in StoreStages /\ reqs'[p] # reqs[p]
           /\ \A p \in Procs :
                (reqs[p].pc # "done" /\ reqs'[p].pc = "done" /\ ~reqs'[p].response[1].success)
                   => (kv' = kv /\ r2' = r2) ]_vars

\* a request found a stale entry, deleted it from both tiers, and ended with
\* success = false after the providers failed: the tiers are empty
C38_Witness ==
    \E p, q \in Procs :
        /\ p # q
        /\ reqs[q].pc = "done" /\ reqs[q].stored /\ reqs[q].kvStored
        /\ reqs[p].pc = "done" /\ reqs[p].staleSeen /\ ~reqs[p].faulted
        /\ ~reqs[p].response[1].success
        /\ kv = <<>> /\ r2 = <<>>

\* ------------------------------------------------------------------------
\* SpecMagic: clicks on one magic link (handleMagicLinkAuthEndpoint)
\* ------------------------------------------------------------------------
Clicks == { 1, 2 }
MaxMagicTime == 2      \* the clock stops here
MagicExpiry == 1       \* expiresAt of the token record
MaxMagicFaults == 1    \* operations of the namespace that throw in one run

IdleClick == [ pc |-> "idle", validation |-> <<>>, tokenData |-> <<>>, response |-> <<>> ]

\* validateMagicLinkToken once getMagicLinkToken has answered (tokenData is
\* <<>> for null)
validateMagicLinkToken(tokenData, checkUsed, now) ==
    IF tokenData = <<>>
    THEN [valid |-> FALSE, tokenData |-> <<>>, error |-> <<"Invalid or expired token">>]
    ELSE IF checkUsed /\ tokenData[1].used
    THEN [valid |-> FALSE, tokenData |-> <<>>, error |-> <<"Token has already been used">>]
    ELSE IF now > tokenData[1].expiresAt
    THEN [valid |-> FALSE, tokenData |-> <<>>, error |-> <<"Token has expired">>]
    ELSE [valid |-> TRUE, tokenData |-> tokenData, error |-> <<>>]

\* the two redirects of the handler
invalidTokenRedirect == [status |-> 302, location |-> "/?error=invalid_token", cookie |-> <<>>]

acceptedRedirect == [status |-> 302, location |-> "/", cookie |-> <<"magic_link_token">>]

MagicFaultChoices ==
    { FALSE } \cup (IF magicLinks.faults < MaxMagicFaults THEN { TRUE } ELSE {})

\* a click on the link arrives at the endpoint
ClickArrives(c) ==
    /\ magicLinks.clicks[c].pc = "idle"
    /\ magicLinks' = [magicLinks EXCEPT !.clicks[c].pc = "validate"]
    /\ UNCHANGED notMagicVars

\* validation = await validateMagicLinkToken(MAGIC_LINKS, token); an invalid
\* token is answered at once.  A get that throws reads as null.
ValidateClick(c) ==
    /\ magicLinks.clicks[c].pc = "validate"
    /\ \E fault \in MagicFaultChoices :
          LET tokenData  == IF fault THEN <<>> ELSE magicLinks.store
              validation == validateMagicLinkToken(tokenData, TRUE, magicLinks.now)
          IN magicLinks' =
                [magicLinks EXCEPT
                    !.faults = IF fault THEN @ + 1 ELSE @,
                    !.clicks[c] =
                        IF ~validation.valid \/ validation.tokenData = <<>>
                        THEN [@ EXCEPT !.validation = <<validation>>,
                                       !.response = <<invalidTokenRedirect>>, !.pc = "done"]
                        ELSE [@ EXCEPT !.validation = <<validation>>, !.pc = "markGet"]]
    /\ UNCHANGED notMagicVars

\* markTokenAsUsed: tokenData = await getMagicLinkToken(...); on null it
\* returns false, which the handler does not look at
MarkTokenGet(c) ==
    /\ magicLinks.clicks[c].pc = "markGet"
    /\ \E fault \in MagicFaultChoices :
          LET tokenData == IF fault THEN <<>> ELSE magicLinks.store IN
          magicLinks' =
             [magicLinks EXCEPT
                 !.faults = IF fault THEN @ + 1 ELSE @,
                 !.clicks[c] =
                     IF tokenData = <<>>
                     THEN [@ EXCEPT !.response = <<acceptedRedirect>>, !.pc = "done"]
                     ELSE [@ EXCEPT !.tokenData = tokenData, !.pc = "markPut"]]
    /\ UNCHANGED notMagicVars

\* markTokenAsUsed: tokenData.used = true; await kvNamespace.put(...); then the
\* handler sets the cookie and redirects, whatever markTokenAsUsed returned
MarkTokenPut(c) ==
    /\ magicLinks.clicks[c].pc = "markPut"
    /\ \E fault \in MagicFaultChoices :
          magicLinks' =
             [magicLinks EXCEPT
                 !.faults = IF fault THEN @ + 1 ELSE @,
                 !.store = IF fault THEN @
                           ELSE << [magicLinks.clicks[c].tokenData[1] EXCEPT !.used = TRUE] >>,
                 !.clicks[c] = [@ EXCEPT !.response = <<acceptedRedirect>>, !.pc = "done"]]
    /\ UNCHANGED notMagicVars

MagicTick ==
    /\ magicLinks.now < MaxMagicTime
    /\ magicLinks' = [magicLinks EXCEPT !.now = @ + 1]
    /\ UNCHANGED notMagicVars

NextMagic ==
    \/ \E c \in Clicks : ClickArrives(c)
    \/ \E c \in Clicks : ValidateClick(c)
    \/ \E c \in Clicks : MarkTokenGet(c)
    \/ \E c \in Clicks : MarkTokenPut(c)
    \/ MagicTick

\* the token was issued and not used yet (storeMagicLinkToken writes used: false)
InitMagic ==
    /\ magicLinks = [ store  |-> << [expiresAt |-> MagicExpiry, used |-> FALSE] >>,
                      now    |-> 0,
                      faults |-> 0,
                      clicks |-> [c \in Clicks |-> IdleClick] ]
    /\ verifyCalls = <<>>
    /\ logoHeaders = <<>>
    /\ endpoint = <<>>
    /\ statsKV = << >>
    /\ rlNow = 0
    /\ rlLog = << >>
    /\ rlCalls = <<>>
    /\ keyIn = <<>>
    /\ keyOut = <<>>
    /\ successfulResults = <<>>
    /\ selected = <<>>
    /\ pass = <<>>
    /\ resolveStage = "idle"
    /\ searchResponse = <<>>
    /\ foundDomain = <<>>
    /\ kv = <<>>
    /\ r2 = <<>>
    /\ fetchNow = 0
    /\ reqs = <<>>
    /\ nFaults = 0

SpecMagic == InitMagic /\ [][NextMagic]_vars

\* the clicks that were answered with the session cookie
AcceptedClicks ==
    { c \in Clicks : /\ magicLinks.clicks[c].pc = "done"
                     /\ magicLinks.clicks[c].response[1].cookie # <<>> }

\* C39: a magic-link token is accepted at most once: of the clicks on one
\* link, later or concurrent, at most one is answered with the session cookie.
C39_TokenAcceptedAtMostOnce ==
    Cardinality(AcceptedClicks) <= 1

====
